---------------------------- MODULE Spec2Model ----------------------------
(***************************************************************************)
(* Model of the SBAS selection core of sbas_pipeline                       *)
(* (workdir/tools/s1_sbas_download.py): scene extraction, grouping, frame  *)
(* selection, acquisition thinning, SBAS pairing, selection reduction, the *)
(* state-file write and the download driver.                               *)
(*                                                                         *)
(* Timestamps are integers counting units of 1/UnitsPerDay day, so that    *)
(* timedelta.days (a floor) differs from the exact difference.  Python     *)
(* lists are sequences; list positions and pair indices are 0-based as in  *)
(* the source, so element i of a list s is s[i + 1].  A dict is a sequence *)
(* of entries in insertion order.                                          *)
(***************************************************************************)
EXTENDS Integers, Sequences, FiniteSets, TLC

VARIABLES
    pc,                   \* position of control in the modelled call
    cfg,                  \* configuration values read by the code
    results_list,         \* catalog returned by search_s1_slc
    infos,                \* extract_scene_info(results_list)
    groups,               \* group_by_track(infos)
    chosen_key,           \* key returned by choose_group
    chosen_infos_before_group_filters,  \* list returned by choose_group
    chosen_frame,         \* frame returned by choose_dominant_frame
    chosen_infos_before,  \* list handed to thin_acquisitions
    thinned,              \* thin_acquisitions: list after stage (A)
    chosen_infos,         \* list returned by thin_acquisitions
    times,                \* [x.t for x in chosen_infos]
    pairs,                \* sbas_pairs_from_times(times, ...)
    used,                 \* indices used by the pair set
    chosen_used_infos,    \* the Selection
    state_file,           \* content of <project>/.state/sbas_pairs.json
    result,               \* value returned (or the exception raised)
    dlcfg,                \* cfg["s1_download"]: the download options
    out_dir,              \* files present under the output directory
    session,              \* whether build_session has returned a session
    dl_i,                 \* scenes of selected_objs the item loop has passed
    log,                  \* what the download driver did, over all runs
    run,                  \* ordinal of the current run of the driver
    other,                \* the same call on a second input, for comparison
    ident,                \* a scene's property bag and the identifiers derived
    pipe,                 \* run_pipeline: selected steps, position, outcome
    state_dir             \* the <step id>.json files under <project>/.state

vars == <<pc, cfg, results_list, infos, groups, chosen_key,
          chosen_infos_before_group_filters, chosen_frame,
          chosen_infos_before, thinned, chosen_infos, times, pairs, used,
          chosen_used_infos, state_file, result,
          dlcfg, out_dir, session, dl_i, log, run, other,
          ident, pipe, state_dir>>

plvars == <<ident, pipe, state_dir>>

dlvars == <<dlcfg, out_dir, session, dl_i, log, run, other>>

---------------------------------------------------------------------------
(* Bounds of the model *)

UnitsPerDay == 2

MaxTime == 5

MaxN == 4

MaxTemporalDays == 2

MaxK == 3

MaxThinN == 4

MaxThinTime == 3

MaxMinRepeat == 1

MaxAcq == 3

MaxThinKeys == 1

MaxInfos == 3

MaxInfoTime == 2

NumKeys == 2

MaxCat == 3

MaxCatTime == 2

MaxRunCat == 3

MaxSel == 3

MaxRuns == 2

MaxChooseLen == 3

MaxChooseTime == 1

(* steps of steps_def the pipeline is run with: 01_prepare,               *)
(* 02_download_s1, 03_download_dem, 04_download_orbits, ...                *)
NumSteps == 4

(* catalogs, listed in any order, that are extracted and grouped *)
MaxExtractLen == 3

MaxExtractTime == 1

(* scenes of a catalog with footprints *)
MaxBboxCat == 3

(* scenes of a catalog whose selection is computed twice *)
MaxRepeatLen == 4

---------------------------------------------------------------------------
(* Values *)

None == -1

NoFrame == 0

Absent == [kind |-> "absent"]

Truncated == [kind |-> "empty"]

NoResult == [kind |-> "none"]

(* a complete document left at the path by an earlier invocation *)
Previous == [kind |-> "previous"]

(* dlcfg.get("dry_search_only", False), .get("show_progress", True), *)
(* .get("skip_existing", True)                                        *)
DefaultDlcfg ==
    [ dry_search_only |-> FALSE,
      show_progress   |-> TRUE,
      skip_existing   |-> TRUE ]

(* run_pipeline is not running and no step has a state file *)
NoPipeline ==
    /\ ident = [kind |-> "none"]
    /\ pipe = [phase |-> "idle"]
    /\ state_dir = <<>>

(* nothing of the download driver has run *)
NoDownload ==
    /\ dlcfg = DefaultDlcfg
    /\ out_dir = {}
    /\ session = FALSE
    /\ dl_i = 0
    /\ log = <<>>
    /\ run = 1
    /\ other = NoResult

DefaultCfg ==
    [ min_repeat_days    |-> None,
      max_acquisitions   |-> None,
      keep_ends          |-> TRUE,
      max_temporal_days  |-> 48,
      k_neighbors        |-> 2,
      ensure_chain       |-> TRUE,
      enforce_same_frame |-> TRUE ]

(* (t2 - t1).days : whole elapsed days, rounded towards minus infinity *)
Days(t1, t2) == (t2 - t1) \div UnitsPerDay

Last(s) == s[Len(s)]

TimesOf(s) == [p \in 1..Len(s) |-> s[p].t]

RECURSIVE SortedTimeSeqs(_, _, _)
SortedTimeSeqs(len, lo, hi) ==
    IF len = 0 THEN {<<>>}
    ELSE UNION {{<<v>> \o s : s \in SortedTimeSeqs(len - 1, v, hi)} : v \in lo..hi}

---------------------------------------------------------------------------
(* SBAS pairing: sbas_pairs_from_times *)

LexLess(p, q) == p[1] < q[1] \/ (p[1] = q[1] /\ p[2] < q[2])

(* sorted(pairs) on a set of int tuples *)
RECURSIVE SortedPairs(_)
SortedPairs(S) ==
    IF S = {} THEN <<>>
    ELSE LET m == CHOOSE p \in S : \A q \in S : p = q \/ LexLess(p, q)
         IN  <<m>> \o SortedPairs(S \ {m})

NeighborPairsShortRange(ts, mt, k) ==
    LET n == Len(ts)
    IN  {<<x[1], x[1] + x[2]>> :
            x \in {y \in (0..(n - 1)) \X (1..(k - 1)) :
                      /\ y[1] + y[2] < n
                      /\ Days(ts[y[1] + 1], ts[y[1] + y[2] + 1]) <= mt}}
        \cup
        {<<x[1] - x[2], x[1]>> :
            x \in {y \in (0..(n - 1)) \X (1..(k - 1)) :
                      /\ y[1] - y[2] >= 0
                      /\ Days(ts[y[1] - y[2] + 1], ts[y[1] + 1]) <= mt}}

NeighborPairsReversedDt(ts, mt, k) ==
    LET n == Len(ts)
    IN  {<<x[1], x[1] + x[2]>> :
            x \in {y \in (0..(n - 1)) \X (1..k) :
                      /\ y[1] + y[2] < n
                      /\ Days(ts[y[1] + 1], ts[y[1] + y[2] + 1]) <= mt}}
        \cup
        {<<x[1] - x[2], x[1]>> :
            x \in {y \in (0..(n - 1)) \X (1..k) :
                      /\ y[1] - y[2] >= 0
                      /\ Days(ts[y[1] + 1], ts[y[1] - y[2] + 1]) <= mt}}

NeighborPairsFromZero(ts, mt, k) ==
    LET n == Len(ts)
    IN  {<<x[1], x[1] + x[2]>> :
            x \in {y \in (0..(n - 1)) \X (0..k) :
                      /\ y[1] + y[2] < n
                      /\ Days(ts[y[1] + 1], ts[y[1] + y[2] + 1]) <= mt}}
        \cup
        {<<x[1] - x[2], x[1]>> :
            x \in {y \in (0..(n - 1)) \X (0..k) :
                      /\ y[1] - y[2] >= 0
                      /\ Days(ts[y[1] - y[2] + 1], ts[y[1] + 1]) <= mt}}

NeighborPairsBackwardLong(ts, mt, k) ==
    LET n == Len(ts)
    IN  {<<x[1], x[1] + x[2]>> :
            x \in {y \in (0..(n - 1)) \X (1..k) :
                      /\ y[1] + y[2] < n
                      /\ Days(ts[y[1] + 1], ts[y[1] + y[2] + 1]) <= mt}}
        \cup
        {<<x[1] - x[2], x[1]>> :
            x \in {y \in (0..(n - 1)) \X (1..(k + 1)) :
                      /\ y[1] - y[2] >= 0
                      /\ Days(ts[y[1] - y[2] + 1], ts[y[1] + 1]) <= mt}}

(* k-nearest forward and backward:                                         *)
(*   for i in range(n):                                                    *)
(*     for d in range(1, k+1): j = i + d; if j >= n: break                 *)
(*                             if (times[j]-times[i]).days <= mt: add (i,j)*)
(*     for d in range(1, k+1): j = i - d; if j < 0: break                  *)
(*                             if (times[i]-times[j]).days <= mt: add (j,i)*)
NeighborPairs(ts, mt, k) ==
    LET n == Len(ts)
    IN  {<<x[1], x[1] + x[2]>> :
            x \in {y \in (0..(n - 1)) \X (1..k) :
                      /\ y[1] + y[2] < n
                      /\ Days(ts[y[1] + 1], ts[y[1] + y[2] + 1]) <= mt}}
        \cup
        {<<x[1] - x[2], x[1]>> :
            x \in {y \in (0..(n - 1)) \X (1..k) :
                      /\ y[1] - y[2] >= 0
                      /\ Days(ts[y[1] - y[2] + 1], ts[y[1] + 1]) <= mt}}

(* the forward scan of the loop alone:                                     *)
(*   for d in range(1, k+1): j = i + d; if j >= n: break                   *)
(*                           if (times[j]-times[i]).days <= mt: add (i,j)  *)
ForwardPairs(ts, mt, k) ==
    LET n == Len(ts)
    IN  {<<x[1], x[1] + x[2]>> :
            x \in {y \in (0..(n - 1)) \X (1..k) :
                      /\ y[1] + y[2] < n
                      /\ Days(ts[y[1] + 1], ts[y[1] + y[2] + 1]) <= mt}}

ChainPairsFromOne(ts, mt) ==
    {<<i, i + 1>> : i \in {j \in 1..(Len(ts) - 2) : Days(ts[j + 1], ts[j + 2]) <= mt}}

ChainPairsShort(ts, mt) ==
    {<<i, i + 1>> : i \in {j \in 0..(Len(ts) - 3) : Days(ts[j + 1], ts[j + 2]) <= mt}}

(* if ensure_chain: for i in range(n - 1): ... pairs.add((i, i + 1)) *)
ChainPairs(ts, mt) ==
    {<<i, i + 1>> : i \in {j \in 0..(Len(ts) - 2) : Days(ts[j + 1], ts[j + 2]) <= mt}}

sbas_pairs_from_times_ChainAlways(ts, mt, k, ec) ==
    IF Len(ts) <= 1 THEN <<>>
    ELSE SortedPairs(NeighborPairs(ts, mt, k) \cup ChainPairs(ts, mt))

sbas_pairs_from_times(ts, mt, k, ec) ==
    IF Len(ts) <= 1 THEN <<>>
    ELSE SortedPairs(NeighborPairs(ts, mt, k)
                        \cup (IF ec THEN ChainPairs(ts, mt) ELSE {}))

---------------------------------------------------------------------------
(* Specification of sbas_pairs_from_times on bounded inputs *)

ExampleTimes == [p \in 1..5 |-> 6 * (p - 1) * UnitsPerDay]

ExampleCfg == [DefaultCfg EXCEPT !.max_temporal_days = 20, !.k_neighbors = 2,
                                 !.ensure_chain = TRUE]

InitPairs ==
    /\ pc = "pairs"
    /\ \/ /\ times \in UNION {SortedTimeSeqs(len, 0, MaxTime) : len \in 0..MaxN}
          /\ cfg \in {[DefaultCfg EXCEPT !.max_temporal_days = mt, !.k_neighbors = k,
                                         !.ensure_chain = ec] :
                         mt \in 0..MaxTemporalDays, k \in 0..MaxK, ec \in BOOLEAN}
       \/ /\ times = ExampleTimes
          /\ cfg = ExampleCfg
    /\ results_list = <<>> /\ infos = <<>> /\ groups = <<>>
    /\ chosen_key = None /\ chosen_infos_before_group_filters = <<>>
    /\ chosen_frame = NoFrame
    /\ chosen_infos_before = <<>> /\ thinned = <<>> /\ chosen_infos = <<>>
    /\ pairs = <<>> /\ used = {} /\ chosen_used_infos = <<>>
    /\ state_file = Absent /\ result = NoResult
    /\ NoDownload
    /\ NoPipeline

CallPairs ==
    /\ pc = "pairs"
    /\ pairs' = sbas_pairs_from_times(times, cfg.max_temporal_days,
                                      cfg.k_neighbors, cfg.ensure_chain)
    /\ pc' = "paired"
    /\ UNCHANGED dlvars
    /\ UNCHANGED <<cfg, results_list, infos, groups, chosen_key,
                   chosen_infos_before_group_filters, chosen_frame,
                   chosen_infos_before, thinned, chosen_infos, times, used,
                   chosen_used_infos, state_file, result>>
    /\ UNCHANGED plvars

NextPairs == CallPairs

SpecPairs == InitPairs /\ [][NextPairs]_vars

---------------------------------------------------------------------------
(* Properties of sbas_pairs_from_times, checked under SpecPairs *)

PairSet == {pairs[p] : p \in 1..Len(pairs)}

Gap(i) == (times[i + 2] - times[i + 1]) \div UnitsPerDay

WithinLimit(i, j) ==
    times[j + 1] - times[i + 1] < (cfg.max_temporal_days + 1) * UnitsPerDay

(* C1: every returned pair (i,j) has 0 <= i < j < n and the whole elapsed *)
(* days between times[i] and times[j] are at most max_temporal_days.      *)
C1_PairValidity ==
    pc = "paired" =>
        \A p \in 1..Len(pairs) :
            /\ 0 <= pairs[p][1]
            /\ pairs[p][1] < pairs[p][2]
            /\ pairs[p][2] < Len(times)
            /\ WithinLimit(pairs[p][1], pairs[p][2])

C1_Witness ==
    /\ pc = "paired"
    /\ \E p \in 1..Len(pairs) : pairs[p][2] > pairs[p][1] + 1
    /\ \E i \in 0..(Len(times) - 2) : ~WithinLimit(i, i + 1)

(* C2: with ensure_chain, every consecutive pair (i,i+1) whose gap is     *)
(* within max_temporal_days whole days is in the output, for every         *)
(* k_neighbors including 0.                                                *)
C2_ChainGuarantee ==
    (pc = "paired" /\ cfg.ensure_chain) =>
        \A i \in 0..(Len(times) - 2) :
            WithinLimit(i, i + 1) => <<i, i + 1>> \in PairSet

C2_Witness ==
    /\ pc = "paired" /\ cfg.ensure_chain /\ cfg.k_neighbors = 0
    /\ Len(times) >= 3
    /\ <<Len(times) - 2, Len(times) - 1>> \in PairSet
    /\ \E i \in 0..(Len(times) - 2) : ~WithinLimit(i, i + 1)

(* C3: the output is exactly the reference set                            *)
(*   {(a,b) : a < b, b - a <= k_neighbors, days(b) - days(a) <= limit}    *)
(* united, under ensure_chain, with the consecutive pairs within the      *)
(* limit; days [0,6,12,18,24], limit 20, k 2, chain on give exactly       *)
(* {(0,1),(0,2),(1,2),(1,3),(2,3),(2,4),(3,4)}.                           *)
ReferencePairs ==
    {ab \in (0..(Len(times) - 1)) \X (0..(Len(times) - 1)) :
        /\ ab[1] < ab[2]
        /\ \/ ab[2] - ab[1] <= cfg.k_neighbors
           \/ cfg.ensure_chain /\ ab[2] = ab[1] + 1
        /\ WithinLimit(ab[1], ab[2])}

C3_ReferenceSet ==
    pc = "paired" =>
        /\ PairSet = ReferencePairs
        /\ (times = ExampleTimes /\ cfg = ExampleCfg) =>
              PairSet = {<<0, 1>>, <<0, 2>>, <<1, 2>>, <<1, 3>>, <<2, 3>>,
                         <<2, 4>>, <<3, 4>>}

C3_Witness ==
    /\ pc = "paired" /\ times = ExampleTimes /\ cfg = ExampleCfg
    /\ Cardinality(PairSet) = 7

(* C4: with ensure_chain and n >= 2, indices a < b are in the same        *)
(* connected component of the pair graph whenever every consecutive gap   *)
(* between them is within the limit; if all gaps are within the limit the *)
(* graph is connected and every index appears in some pair.               *)
RECURSIVE Reach(_)
Reach(S) ==
    LET T == S \cup {e[2] : e \in {f \in PairSet : f[1] \in S}}
                \cup {e[1] : e \in {f \in PairSet : f[2] \in S}}
    IN  IF T = S THEN S ELSE Reach(T)

C4_ChainConnectivity ==
    (pc = "paired" /\ cfg.ensure_chain /\ Len(times) >= 2) =>
        /\ \A a \in 0..(Len(times) - 1) : \A b \in (a + 1)..(Len(times) - 1) :
              (\A i \in a..(b - 1) : Gap(i) <= cfg.max_temporal_days)
                  => b \in Reach({a})
        /\ (\A i \in 0..(Len(times) - 2) : Gap(i) <= cfg.max_temporal_days)
              => /\ Reach({0}) = 0..(Len(times) - 1)
                 /\ \A a \in 0..(Len(times) - 1) :
                       \E e \in PairSet : a = e[1] \/ a = e[2]

C4_Witness ==
    /\ pc = "paired" /\ cfg.ensure_chain /\ cfg.k_neighbors = 1
    /\ Len(times) >= 4
    /\ \A i \in 0..(Len(times) - 2) : Gap(i) <= cfg.max_temporal_days
    /\ Reach({0}) = 0..(Len(times) - 1)
    /\ \E a \in 0..(Len(times) - 3) : ~WithinLimit(a, a + 2)

(* C25: the returned list is strictly increasing in lexicographic order, *)
(* so it has no duplicate edge; it has no self-pair, also when             *)
(* k_neighbors is 0, and no edge together with its reverse; it is empty    *)
(* for n <= 1.                                                             *)
C25_StrictlySortedEdges ==
    pc = "paired" =>
        /\ \A p \in 1..(Len(pairs) - 1) : LexLess(pairs[p], pairs[p + 1])
        /\ \A p \in 1..Len(pairs) : pairs[p][1] # pairs[p][2]
        /\ \A p \in 1..Len(pairs) : <<pairs[p][2], pairs[p][1]>> \notin PairSet
        /\ Len(times) <= 1 => pairs = <<>>

C25_Witness ==
    /\ pc = "paired" /\ cfg.k_neighbors = 0 /\ cfg.ensure_chain
    /\ Len(pairs) >= 3
    /\ \E p \in 1..(Len(times) - 1) : times[p] = times[p + 1]

(* C30: for k_neighbors >= 1 the list is the same with ensure_chain true  *)
(* and false, and is the sorted set of the forward scan alone: the chain   *)
(* pass and the backward scan add nothing.                                 *)
C30_ChainAndBackwardRedundant ==
    (pc = "paired" /\ cfg.k_neighbors >= 1) =>
        /\ pairs = sbas_pairs_from_times(times, cfg.max_temporal_days,
                                         cfg.k_neighbors, ~cfg.ensure_chain)
        /\ pairs = SortedPairs(ForwardPairs(times, cfg.max_temporal_days,
                                            cfg.k_neighbors))

C30_Witness ==
    /\ pc = "paired" /\ cfg.k_neighbors = 1 /\ cfg.ensure_chain
    /\ Len(times) >= 4
    /\ <<0, 1>> \in PairSet
    /\ ChainPairs(times, cfg.max_temporal_days) # {}
    /\ \E i \in 0..(Len(times) - 2) : ~WithinLimit(i, i + 1)

---------------------------------------------------------------------------
(* Acquisition thinning: thin_acquisitions *)

(* list.sort(key=lambda z: z.t) / sorted(..., key=lambda z: z.t): stable *)
InsertByT(s, x) ==
    LET p == Cardinality({q \in 1..Len(s) : s[q].t <= x.t})
    IN  SubSeq(s, 1, p) \o <<x>> \o SubSeq(s, p + 1, Len(s))

RECURSIVE SortByT(_)
SortByT(s) ==
    IF s = <<>> THEN <<>>
    ELSE InsertByT(SortByT(SubSeq(s, 1, Len(s) - 1)), Last(s))

GreedyKeepCeil(acc, x, mrd) ==
    IF acc = <<>> THEN <<x>>
    ELSE IF (x.t - Last(acc).t + UnitsPerDay - 1) \div UnitsPerDay >= mrd
         THEN Append(acc, x) ELSE acc

(* loop body of the greedy scan; last_t is the time of the last kept one *)
GreedyKeep(acc, x, mrd) ==
    IF acc = <<>> THEN <<x>>
    ELSE IF Days(Last(acc).t, x.t) >= mrd THEN Append(acc, x) ELSE acc

RECURSIVE GreedyScan(_, _)
GreedyScan(out, mrd) ==
    IF out = <<>> THEN <<>>
    ELSE GreedyKeep(GreedyScan(SubSeq(out, 1, Len(out) - 1), mrd), Last(out), mrd)

(* uniq[(x.t, x.key)] = x : first insertion fixes the position, the last *)
(* assignment the value                                                  *)
UniqPut(u, x) ==
    IF \E q \in 1..Len(u) : u[q].t = x.t /\ u[q].key = x.key
    THEN [q \in 1..Len(u) |-> IF u[q].t = x.t /\ u[q].key = x.key THEN x ELSE u[q]]
    ELSE Append(u, x)

RECURSIVE UniqValues(_)
UniqValues(s) ==
    IF s = <<>> THEN <<>>
    ELSE UniqPut(UniqValues(SubSeq(s, 1, Len(s) - 1)), Last(s))

ThinSpacingNoTail(out, mrd, keep_ends) ==
    IF mrd # None /\ mrd > 0
    THEN LET g == GreedyScan(out, mrd)
         IN  IF keep_ends /\ g # <<>> THEN SortByT(UniqValues(g)) ELSE g
    ELSE out

(* stage (A): greedy thinning by minimum temporal spacing *)
ThinSpacing(out, mrd, keep_ends) ==
    IF mrd # None /\ mrd > 0
    THEN LET g == GreedyScan(out, mrd)
         IN  IF keep_ends /\ g # <<>>
             THEN SortByT(UniqValues(IF Last(g).t # Last(out).t
                                     THEN Append(g, Last(out)) ELSE g))
             ELSE g
    ELSE out

(* round(num / den) for num >= 0, den > 0: ties go to the even integer *)
PyRound(num, den) ==
    LET q == num \div den
        r == num % den
    IN  IF 2 * r < den THEN q
        ELSE IF 2 * r > den THEN q + 1
        ELSE IF q % 2 = 0 THEN q ELSE q + 1

RECURSIVE SortedInts(_)
SortedInts(S) ==
    IF S = {} THEN <<>>
    ELSE LET m == CHOOSE x \in S : \A y \in S : x <= y
         IN  <<m>> \o SortedInts(S \ {m})

UniformIdxsOverK(n, k) == SortedInts({PyRound(i * (n - 1), k) : i \in 0..(k - 1)})

(* idxs = sorted(set(round(i * (n - 1) / (k - 1)) for i in range(k))) *)
UniformIdxs(n, k) == SortedInts({PyRound(i * (n - 1), k - 1) : i \in 0..(k - 1)})

ThinCapFirstTwo(out, max_acq, keep_ends) ==
    IF max_acq # None /\ max_acq > 0 /\ Len(out) > max_acq
    THEN IF max_acq = 1 THEN <<out[1]>>
         ELSE IF max_acq = 2 THEN <<out[1], out[2]>>
         ELSE LET idxs == UniformIdxs(Len(out), max_acq)
              IN  SortByT([p \in 1..Len(idxs) |-> out[idxs[p] + 1]])
    ELSE out

(* stage (B): cap by max_acquisitions (uniform sampling) *)
ThinCap(out, max_acq, keep_ends) ==
    IF max_acq # None /\ max_acq > 0 /\ Len(out) > max_acq
    THEN IF max_acq = 1 THEN <<out[1]>>
         ELSE IF max_acq = 2
              THEN (IF keep_ends THEN <<out[1], Last(out)>> ELSE <<out[1], out[2]>>)
         ELSE LET idxs == UniformIdxs(Len(out), max_acq)
              IN  SortByT([p \in 1..Len(idxs) |-> out[idxs[p] + 1]])
    ELSE out

thin_acquisitions_ReturnAfterSpacing(in, mrd, max_acq, keep_ends) ==
    IF Len(in) <= 2 THEN in
    ELSE IF mrd # None /\ mrd > 0 THEN ThinSpacing(in, mrd, keep_ends)
    ELSE ThinCap(in, max_acq, keep_ends)

thin_acquisitions(in, mrd, max_acq, keep_ends) ==
    IF Len(in) <= 2 THEN in
    ELSE ThinCap(ThinSpacing(in, mrd, keep_ends), max_acq, keep_ends)

---------------------------------------------------------------------------
(* Specification of thin_acquisitions on bounded time-sorted inputs *)

SceneLists(len, hi, keys) ==
    {[p \in 1..len |-> [idx |-> p - 1, t |-> ts[p], key |-> ks[p], frame |-> NoFrame]] :
        ts \in SortedTimeSeqs(len, 0, hi), ks \in [1..len -> keys]}

InitThin ==
    /\ pc = "thin"
    /\ chosen_infos_before \in
          UNION {SceneLists(len, MaxThinTime, 1..MaxThinKeys) : len \in 0..MaxThinN}
    /\ cfg \in {[DefaultCfg EXCEPT !.min_repeat_days = mrd, !.max_acquisitions = ma,
                                   !.keep_ends = ke] :
                   mrd \in {None} \cup 0..MaxMinRepeat, ma \in {None} \cup 0..MaxAcq,
                   ke \in BOOLEAN}
    /\ results_list = <<>> /\ infos = <<>> /\ groups = <<>>
    /\ chosen_key = None /\ chosen_infos_before_group_filters = <<>>
    /\ chosen_frame = NoFrame
    /\ thinned = <<>> /\ chosen_infos = <<>> /\ times = <<>>
    /\ pairs = <<>> /\ used = {} /\ chosen_used_infos = <<>>
    /\ state_file = Absent /\ result = NoResult
    /\ NoDownload
    /\ NoPipeline

CallThin ==
    /\ pc = "thin"
    /\ thinned' = IF Len(chosen_infos_before) <= 2 THEN chosen_infos_before
                  ELSE ThinSpacing(chosen_infos_before, cfg.min_repeat_days,
                                   cfg.keep_ends)
    /\ chosen_infos' = thin_acquisitions(chosen_infos_before, cfg.min_repeat_days,
                                         cfg.max_acquisitions, cfg.keep_ends)
    /\ pc' = "thinned"
    /\ UNCHANGED dlvars
    /\ UNCHANGED <<cfg, results_list, infos, groups, chosen_key,
                   chosen_infos_before_group_filters, chosen_frame,
                   chosen_infos_before, times, pairs, used, chosen_used_infos,
                   state_file, result>>
    /\ UNCHANGED plvars

NextThin == CallThin

SpecThin == InitThin /\ [][NextThin]_vars

---------------------------------------------------------------------------
(* Properties of thin_acquisitions, checked under SpecThin *)

CapSet == cfg.max_acquisitions # None /\ cfg.max_acquisitions > 0

SpacingSet == cfg.min_repeat_days # None /\ cfg.min_repeat_days > 0

WholeDaysApart(a, b) == (b.t - a.t) \div UnitsPerDay

(* C7: an input longer than 2 is thinned to at most max_acquisitions       *)
(* elements whenever that is set and positive; an input of length <= 2 is  *)
(* returned unchanged.                                                     *)
C7_CapRespected ==
    pc = "thinned" =>
        /\ (Len(chosen_infos_before) > 2 /\ CapSet)
              => Len(chosen_infos) <= cfg.max_acquisitions
        /\ Len(chosen_infos_before) <= 2 => chosen_infos = chosen_infos_before

C7_Witness ==
    /\ pc = "thinned" /\ CapSet /\ SpacingSet
    /\ Len(thinned) > cfg.max_acquisitions
    /\ Len(thinned) < Len(chosen_infos_before)
    /\ Len(chosen_infos) = cfg.max_acquisitions

(* C8: after the minimum-spacing stage (min_repeat_days > 0) adjacent kept *)
(* elements are at least min_repeat_days whole days apart, except possibly *)
(* the tail re-appended under keep_ends and its predecessor; the first     *)
(* input element is always kept.                                           *)
C8_ThinningSpacing ==
    (pc = "thinned" /\ Len(chosen_infos_before) > 2 /\ SpacingSet) =>
        /\ Len(thinned) >= 1
        /\ thinned[1] = chosen_infos_before[1]
        /\ \A p \in 1..(Len(thinned) - 1) :
              \/ WholeDaysApart(thinned[p], thinned[p + 1]) >= cfg.min_repeat_days
              \/ /\ p + 1 = Len(thinned)
                 /\ cfg.keep_ends
                 /\ thinned[p + 1] = Last(chosen_infos_before)

C8_Witness ==
    /\ pc = "thinned" /\ SpacingSet /\ cfg.keep_ends
    /\ Len(thinned) >= 3
    /\ Len(thinned) < Len(chosen_infos_before)
    /\ WholeDaysApart(thinned[Len(thinned) - 1], Last(thinned)) < cfg.min_repeat_days

(* C9 as stated: under keep_ends, for every input longer than 2 and every  *)
(* min_repeat_days and max_acquisitions, the output's first and last       *)
(* timestamps are the input's first and last timestamps.                   *)
C9_SpansInterval_Original ==
    (pc = "thinned" /\ cfg.keep_ends /\ Len(chosen_infos_before) > 2) =>
        /\ Len(chosen_infos) >= 1
        /\ chosen_infos[1].t = chosen_infos_before[1].t
        /\ Last(chosen_infos).t = Last(chosen_infos_before).t

(* C9 amended: the same, for every max_acquisitions other than 1. *)
C9_SpansInterval ==
    (pc = "thinned" /\ cfg.keep_ends /\ Len(chosen_infos_before) > 2
       /\ cfg.max_acquisitions # 1) =>
        /\ Len(chosen_infos) >= 1
        /\ chosen_infos[1].t = chosen_infos_before[1].t
        /\ Last(chosen_infos).t = Last(chosen_infos_before).t

C9_Witness ==
    /\ pc = "thinned" /\ cfg.keep_ends /\ SpacingSet /\ cfg.max_acquisitions = 2
    /\ Len(chosen_infos_before) > Len(thinned)
    /\ Len(thinned) > Len(chosen_infos)
    /\ WholeDaysApart(thinned[Len(thinned) - 1], Last(thinned)) < cfg.min_repeat_days
    /\ Last(chosen_infos) = Last(chosen_infos_before)

(* C23: when the list entering the cap stage has n > k elements with     *)
(* k = max_acquisitions >= 3, the rounded indices round(i*(n-1)/(k-1)),    *)
(* i in 0..k-1, are pairwise distinct, so the output has exactly k         *)
(* elements; it contains the elements at positions 0 and n-1 and is in     *)
(* time order.                                                             *)
C23_UniformCapExact ==
    (pc = "thinned" /\ CapSet /\ cfg.max_acquisitions >= 3
       /\ Len(thinned) > cfg.max_acquisitions) =>
        LET n == Len(thinned)
            k == cfg.max_acquisitions
        IN  /\ Cardinality({PyRound(i * (n - 1), k - 1) : i \in 0..(k - 1)}) = k
            /\ Len(chosen_infos) = k
            /\ \E p \in 1..Len(chosen_infos) : chosen_infos[p] = thinned[1]
            /\ \E p \in 1..Len(chosen_infos) : chosen_infos[p] = thinned[n]
            /\ \A p \in 1..(Len(chosen_infos) - 1) :
                  chosen_infos[p].t <= chosen_infos[p + 1].t

C23_Witness ==
    /\ pc = "thinned" /\ cfg.max_acquisitions = 3
    /\ Len(thinned) = 4
    /\ chosen_infos = <<thinned[1], thinned[3], thinned[4]>>

---------------------------------------------------------------------------
(* Extraction, grouping and frame selection *)

(* SceneInfo(idx=i, obj=r, t=..., frame=..., key=...); infos.sort(key=t) *)
extract_scene_info(results) ==
    SortByT([p \in 1..Len(results) |->
                [idx |-> p - 1, t |-> results[p].t, key |-> results[p].key,
                 frame |-> results[p].frame]])

GroupPutOverwrite(g, info) ==
    IF \E q \in 1..Len(g) : g[q].key = info.key
    THEN [q \in 1..Len(g) |->
             IF g[q].key = info.key THEN [key |-> g[q].key, infos |-> <<info>>]
             ELSE g[q]]
    ELSE Append(g, [key |-> info.key, infos |-> <<info>>])

GroupPutPrepend(g, info) ==
    IF \E q \in 1..Len(g) : g[q].key = info.key
    THEN [q \in 1..Len(g) |->
             IF g[q].key = info.key
             THEN [key |-> g[q].key, infos |-> <<info>> \o g[q].infos]
             ELSE g[q]]
    ELSE Append(g, [key |-> info.key, infos |-> <<info>>])

(* g.setdefault(info.key, []).append(info) *)
GroupPut(g, info) ==
    IF \E q \in 1..Len(g) : g[q].key = info.key
    THEN [q \in 1..Len(g) |->
             IF g[q].key = info.key
             THEN [key |-> g[q].key, infos |-> Append(g[q].infos, info)]
             ELSE g[q]]
    ELSE Append(g, [key |-> info.key, infos |-> <<info>>])

RECURSIVE GroupAll(_)
GroupAll(s) ==
    IF s = <<>> THEN <<>>
    ELSE GroupPut(GroupAll(SubSeq(s, 1, Len(s) - 1)), Last(s))

group_by_track(s) ==
    LET g == GroupAll(s)
    IN  [q \in 1..Len(g) |-> [key |-> g[q].key, infos |-> SortByT(g[q].infos)]]

(* max(groups.keys(), key=lambda kk: len(groups[kk])): first maximum *)
choose_group(g) ==
    LET q == CHOOSE q \in 1..Len(g) :
                 /\ \A r \in 1..Len(g) : Len(g[r].infos) <= Len(g[q].infos)
                 /\ \A r \in 1..(q - 1) : Len(g[r].infos) < Len(g[q].infos)
    IN  g[q]

(* counts[x.frame] = counts.get(x.frame, 0) + 1, frames in first-seen order *)
RECURSIVE FrameOrder(_)
FrameOrder(s) ==
    IF s = <<>> THEN <<>>
    ELSE LET o == FrameOrder(SubSeq(s, 1, Len(s) - 1))
             f == Last(s).frame
         IN  IF f = NoFrame \/ \E q \in 1..Len(o) : o[q] = f THEN o ELSE Append(o, f)

FrameCount(s, f) == Cardinality({p \in 1..Len(s) : s[p].frame = f})

choose_dominant_frame_NoFilter(s) ==
    LET o == FrameOrder(s)
    IN  IF s = <<>> \/ o = <<>> THEN [frame |-> NoFrame, infos |-> s]
        ELSE LET q == CHOOSE q \in 1..Len(o) :
                          /\ \A r \in 1..Len(o) : FrameCount(s, o[r]) <= FrameCount(s, o[q])
                          /\ \A r \in 1..(q - 1) : FrameCount(s, o[r]) < FrameCount(s, o[q])
             IN  [frame |-> o[q], infos |-> SortByT(s)]

choose_dominant_frame(s) ==
    LET o == FrameOrder(s)
    IN  IF s = <<>> \/ o = <<>> THEN [frame |-> NoFrame, infos |-> s]
        ELSE LET q == CHOOSE q \in 1..Len(o) :
                          /\ \A r \in 1..Len(o) : FrameCount(s, o[r]) <= FrameCount(s, o[q])
                          /\ \A r \in 1..(q - 1) : FrameCount(s, o[r]) < FrameCount(s, o[q])
                 keep(x) == x.frame = o[q]
             IN  [frame |-> o[q], infos |-> SortByT(SelectSeq(s, keep))]

---------------------------------------------------------------------------
(* Specification of group_by_track on bounded lists of SceneInfo *)

InfoLists(len, hi, keys) ==
    {[p \in 1..len |-> [idx |-> p - 1, t |-> ts[p], key |-> ks[p], frame |-> NoFrame]] :
        ts \in [1..len -> 0..hi], ks \in [1..len -> keys]}

InitGroup ==
    /\ pc = "group"
    /\ infos \in UNION {InfoLists(len, MaxInfoTime, 1..NumKeys) : len \in 0..MaxInfos}
    /\ cfg = DefaultCfg
    /\ results_list = <<>> /\ groups = <<>>
    /\ chosen_key = None /\ chosen_infos_before_group_filters = <<>>
    /\ chosen_frame = NoFrame
    /\ chosen_infos_before = <<>> /\ thinned = <<>> /\ chosen_infos = <<>>
    /\ times = <<>> /\ pairs = <<>> /\ used = {} /\ chosen_used_infos = <<>>
    /\ state_file = Absent /\ result = NoResult
    /\ NoDownload
    /\ NoPipeline

CallGroup ==
    /\ pc = "group"
    /\ groups' = group_by_track(infos)
    /\ pc' = "grouped"
    /\ UNCHANGED dlvars
    /\ UNCHANGED <<cfg, results_list, infos, chosen_key,
                   chosen_infos_before_group_filters, chosen_frame,
                   chosen_infos_before, thinned, chosen_infos, times, pairs,
                   used, chosen_used_infos, state_file, result>>
    /\ UNCHANGED plvars

NextGroup == CallGroup

SpecGroup == InitGroup /\ [][NextGroup]_vars

(* C10: group_by_track is a total, disjoint partition: every input scene   *)
(* occurs exactly once over all groups, in the group of its own key, and   *)
(* no group is empty.                                                      *)
Occurrences(q, x) == Cardinality({r \in 1..Len(groups[q].infos) : groups[q].infos[r] = x})

C10_Partition ==
    pc = "grouped" =>
        /\ \A p \in 1..Len(infos) :
              /\ \E q \in 1..Len(groups) :
                    /\ groups[q].key = infos[p].key
                    /\ Occurrences(q, infos[p]) = 1
              /\ \A q \in 1..Len(groups) :
                    groups[q].key # infos[p].key => Occurrences(q, infos[p]) = 0
        /\ \A q \in 1..Len(groups) :
              /\ Len(groups[q].infos) >= 1
              /\ \A r \in 1..Len(groups[q].infos) :
                    \E p \in 1..Len(infos) : infos[p] = groups[q].infos[r]
              /\ \A q2 \in 1..Len(groups) : groups[q2].key = groups[q].key => q2 = q

C10_Witness ==
    /\ pc = "grouped"
    /\ Len(groups) = 2
    /\ \E q \in 1..Len(groups) : Len(groups[q].infos) >= 2
    /\ infos[1].key # infos[2].key /\ infos[3].key = infos[1].key


---------------------------------------------------------------------------
(* sbas_select_and_download: search result to state file *)

UsedIndicesFirstOnly(prs) == {prs[p][1] : p \in 1..Len(prs)}

(* for i, j in pairs: used.add(i); used.add(j) *)
UsedIndices(prs) ==
    {prs[p][1] : p \in 1..Len(prs)} \cup {prs[p][2] : p \in 1..Len(prs)}

(* [chosen_infos[i] for i in sorted(used)] *)
SelectUsed(ci, usd) ==
    LET srt == SortedInts(usd)
    IN  [q \in 1..Len(srt) |-> ci[srt[q] + 1]]

(* Catalogs are listed in time order: extract_scene_info sorts by time,  *)
(* so a catalog in another order differs only in the idx labels.  Each   *)
(* record carries its start time, resolved group key and resolved frame. *)
Catalogs(len, hi) ==
    {[p \in 1..len |-> [t |-> ts[p], key |-> ks[p], frame |-> fs[p]]] :
        ts \in SortedTimeSeqs(len, 0, hi), ks \in [1..len -> {1, 2}],
        fs \in [1..len -> {NoFrame, 1}]}

Init ==
    /\ pc = "start"
    /\ results_list \in UNION {Catalogs(len, MaxCatTime) : len \in 0..MaxCat}
    /\ cfg \in {[DefaultCfg EXCEPT !.max_temporal_days = mt, !.k_neighbors = k,
                                   !.ensure_chain = ec, !.enforce_same_frame = en,
                                   !.min_repeat_days = th[1],
                                   !.max_acquisitions = th[2]] :
                   mt \in {0, 1}, k \in {0, 1}, ec \in BOOLEAN, en \in BOOLEAN,
                   th \in {<<None, None>>, <<1, 2>>}}
    /\ infos = <<>> /\ groups = <<>>
    /\ chosen_key = None /\ chosen_infos_before_group_filters = <<>>
    /\ chosen_frame = NoFrame
    /\ chosen_infos_before = <<>> /\ thinned = <<>> /\ chosen_infos = <<>>
    /\ times = <<>> /\ pairs = <<>> /\ used = {} /\ chosen_used_infos = <<>>
    /\ state_file = Absent /\ result = NoResult
    /\ NoDownload
    /\ NoPipeline

ReturnEmptyRaises ==
    /\ pc = "start"
    /\ Len(results_list) = 0
    /\ result' = [kind |-> "raise", error |-> "ValueError"]
    /\ pc' = "raised"
    /\ UNCHANGED dlvars
    /\ UNCHANGED <<cfg, results_list, infos, groups, chosen_key,
                   chosen_infos_before_group_filters, chosen_frame,
                   chosen_infos_before, thinned, chosen_infos, times, pairs,
                   used, chosen_used_infos, state_file>>
    /\ UNCHANGED plvars

(* if len(results_list) == 0: return {... zero counts ...} *)
ReturnEmpty ==
    /\ pc = "start"
    /\ Len(results_list) = 0
    /\ result' = [kind |-> "return", searched |-> TRUE, downloaded |-> FALSE,
                  total_candidates |-> 0, chosen_group_size |-> 0,
                  selected_count |-> 0]
    /\ pc' = "done"
    /\ UNCHANGED dlvars
    /\ UNCHANGED <<cfg, results_list, infos, groups, chosen_key,
                   chosen_infos_before_group_filters, chosen_frame,
                   chosen_infos_before, thinned, chosen_infos, times, pairs,
                   used, chosen_used_infos, state_file>>
    /\ UNCHANGED plvars

RaiseNoFrameProceeds ==
    /\ pc = "start"
    /\ Len(results_list) > 0
    /\ infos' = extract_scene_info(results_list)
    /\ groups' = group_by_track(infos')
    /\ chosen_key' = choose_group(groups').key
    /\ chosen_infos_before_group_filters' = choose_group(groups').infos
    /\ cfg.enforce_same_frame
    /\ chosen_frame' = choose_dominant_frame(chosen_infos_before_group_filters').frame
    /\ chosen_frame' = NoFrame
    /\ chosen_infos_before' = chosen_infos_before_group_filters'
    /\ thinned' = IF Len(chosen_infos_before') <= 2 THEN chosen_infos_before'
                  ELSE ThinSpacing(chosen_infos_before', cfg.min_repeat_days,
                                   cfg.keep_ends)
    /\ chosen_infos' = thin_acquisitions(chosen_infos_before', cfg.min_repeat_days,
                                         cfg.max_acquisitions, cfg.keep_ends)
    /\ times' = TimesOf(chosen_infos')
    /\ pairs' = sbas_pairs_from_times(times', cfg.max_temporal_days,
                                      cfg.k_neighbors, cfg.ensure_chain)
    /\ used' = UsedIndices(pairs')
    /\ chosen_used_infos' = SelectUsed(chosen_infos', used')
    /\ pc' = "selected"
    /\ UNCHANGED dlvars
    /\ UNCHANGED <<cfg, results_list, state_file, result>>
    /\ UNCHANGED plvars

(* enforce_same_frame and choose_dominant_frame found no frame: ValueError *)
RaiseNoFrame ==
    /\ pc = "start"
    /\ Len(results_list) > 0
    /\ infos' = extract_scene_info(results_list)
    /\ groups' = group_by_track(infos')
    /\ chosen_key' = choose_group(groups').key
    /\ chosen_infos_before_group_filters' = choose_group(groups').infos
    /\ cfg.enforce_same_frame
    /\ chosen_frame' = choose_dominant_frame(chosen_infos_before_group_filters').frame
    /\ chosen_frame' = NoFrame
    /\ result' = [kind |-> "raise", error |-> "ValueError"]
    /\ pc' = "raised"
    /\ UNCHANGED dlvars
    /\ UNCHANGED <<cfg, results_list, chosen_infos_before, thinned,
                   chosen_infos, times, pairs, used, chosen_used_infos,
                   state_file>>
    /\ UNCHANGED plvars

(* extract, group, choose group and frame, thin, pair, reduce *)
Select ==
    /\ pc = "start"
    /\ Len(results_list) > 0
    /\ infos' = extract_scene_info(results_list)
    /\ groups' = group_by_track(infos')
    /\ chosen_key' = choose_group(groups').key
    /\ chosen_infos_before_group_filters' = choose_group(groups').infos
    /\ IF cfg.enforce_same_frame
       THEN /\ chosen_frame' =
                  choose_dominant_frame(chosen_infos_before_group_filters').frame
            /\ chosen_frame' # NoFrame
            /\ chosen_infos_before' =
                  choose_dominant_frame(chosen_infos_before_group_filters').infos
       ELSE /\ chosen_frame' = NoFrame
            /\ chosen_infos_before' = chosen_infos_before_group_filters'
    /\ thinned' = IF Len(chosen_infos_before') <= 2 THEN chosen_infos_before'
                  ELSE ThinSpacing(chosen_infos_before', cfg.min_repeat_days,
                                   cfg.keep_ends)
    /\ chosen_infos' = thin_acquisitions(chosen_infos_before', cfg.min_repeat_days,
                                         cfg.max_acquisitions, cfg.keep_ends)
    /\ times' = TimesOf(chosen_infos')
    /\ pairs' = sbas_pairs_from_times(times', cfg.max_temporal_days,
                                      cfg.k_neighbors, cfg.ensure_chain)
    /\ used' = UsedIndices(pairs')
    /\ chosen_used_infos' = SelectUsed(chosen_infos', used')
    /\ pc' = "selected"
    /\ UNCHANGED dlvars
    /\ UNCHANGED <<cfg, results_list, state_file, result>>
    /\ UNCHANGED plvars

(* pairs_path.write_text(...): the file is opened for writing, truncated *)
OpenStateFile ==
    /\ pc = "selected"
    /\ state_file' = Truncated
    /\ pc' = "writing"
    /\ UNCHANGED dlvars
    /\ UNCHANGED <<cfg, results_list, infos, groups, chosen_key,
                   chosen_infos_before_group_filters, chosen_frame,
                   chosen_infos_before, thinned, chosen_infos, times, pairs,
                   used, chosen_used_infos, result>>
    /\ UNCHANGED plvars

(* no geometry / no bounding box (None) *)
NoGeometry == <<>>

NoBbox == <<>>

MinOf(S) == CHOOSE x \in S : \A y \in S : x <= y

MaxOf(S) == CHOOSE x \in S : \A y \in S : x >= y

(* getattr(r, "geometry", None): the footprint's (lon, lat) points in the *)
(* order walk() yields them, none when the record has no geometry          *)
scene_geometry(r) ==
    IF "geometry" \in DOMAIN r THEN r.geometry ELSE NoGeometry

(* [min(xs), min(ys), max(xs), max(ys)], None when there are no points *)
geom_bbox(geom) ==
    IF geom = NoGeometry THEN NoBbox
    ELSE LET xs == {geom[p][1] : p \in 1..Len(geom)}
             ys == {geom[p][2] : p \in 1..Len(geom)}
         IN  <<MinOf(xs), MinOf(ys), MaxOf(xs), MaxOf(ys)>>

bbox_union_MaxWest(bboxes) ==
    LET b == {bboxes[p] : p \in {q \in 1..Len(bboxes) : Len(bboxes[q]) = 4}}
    IN  IF b = {} THEN NoBbox
        ELSE <<MaxOf({bb[1] : bb \in b}), MinOf({bb[2] : bb \in b}),
               MaxOf({bb[3] : bb \in b}), MaxOf({bb[4] : bb \in b})>>

(* b = [bb for bb in bboxes if bb and len(bb) == 4]; None if b is empty, *)
(* else [min W, min S, max E, max N]                                      *)
bbox_union(bboxes) ==
    LET b == {bboxes[p] : p \in {q \in 1..Len(bboxes) : Len(bboxes[q]) = 4}}
    IN  IF b = {} THEN NoBbox
        ELSE <<MinOf({bb[1] : bb \in b}), MinOf({bb[2] : bb \in b}),
               MaxOf({bb[3] : bb \in b}), MaxOf({bb[4] : bb \in b})>>

(* bbox_union of the boxes of the scenes x.obj that have one *)
bbox_from_infos(s) ==
    bbox_union(SelectSeq([p \in 1..Len(s) |->
                             geom_bbox(scene_geometry(results_list[s[p].idx + 1]))],
                         LAMBDA bb : bb # NoBbox))

(* meta = {...}: the document, as far as it depends on the selection *)
meta ==
    [kind |-> "document",
     total_candidates |-> Len(results_list),
     chosen_group_key |-> chosen_key,
     enforce_same_frame |-> cfg.enforce_same_frame,
     chosen_frame |-> chosen_frame,
     chosen_group_bbox |-> bbox_from_infos(chosen_infos_before),
     selected_bbox |-> bbox_from_infos(chosen_used_infos),
     chosen_group_size_before |-> Len(chosen_infos_before),
     chosen_group_size_after |-> Len(chosen_infos),
     selected_count |-> Len(chosen_used_infos),
     selected_ids |-> [q \in 1..Len(chosen_used_infos) |-> chosen_used_infos[q].idx],
     pairs |-> pairs,
     pairs_count |-> Len(pairs)]

(* ... and json.dumps(meta) is written to it *)
WriteStateFile ==
    /\ pc = "writing"
    /\ state_file' = meta
    /\ pc' = "written"
    /\ UNCHANGED dlvars
    /\ UNCHANGED <<cfg, results_list, infos, groups, chosen_key,
                   chosen_infos_before_group_filters, chosen_frame,
                   chosen_infos_before, thinned, chosen_infos, times, pairs,
                   used, chosen_used_infos, result>>
    /\ UNCHANGED plvars

Next ==
    \/ ReturnEmpty
    \/ RaiseNoFrame
    \/ Select
    \/ OpenStateFile
    \/ WriteStateFile

Spec == Init /\ [][Next]_vars

---------------------------------------------------------------------------
(* Properties of the selection reduction, checked under Spec *)

Reduced == pc \in {"selected", "writing", "written"}

ElementsOf(s) == {s[q] : q \in 1..Len(s)}

PairedPositions == {i \in 0..(Len(chosen_infos) - 1) :
                       \E p \in 1..Len(pairs) : pairs[p][1] = i \/ pairs[p][2] = i}

(* C5: the Selection is exactly the thinned-list elements whose position   *)
(* appears in at least one pair, in the thinned list's order.              *)
C5_SelectionReduction ==
    Reduced =>
        /\ \A p \in 1..Len(pairs) :
              /\ chosen_infos[pairs[p][1] + 1] \in ElementsOf(chosen_used_infos)
              /\ chosen_infos[pairs[p][2] + 1] \in ElementsOf(chosen_used_infos)
        /\ ElementsOf(chosen_used_infos) = {chosen_infos[i + 1] : i \in PairedPositions}
        /\ Len(chosen_used_infos) = Cardinality(PairedPositions)
        /\ \A q \in 1..(Len(chosen_used_infos) - 1) :
              \E i \in PairedPositions : \E j \in PairedPositions :
                  /\ i < j
                  /\ chosen_infos[i + 1] = chosen_used_infos[q]
                  /\ chosen_infos[j + 1] = chosen_used_infos[q + 1]

C5_Witness ==
    /\ Reduced
    /\ Len(chosen_infos) = 3
    /\ Len(chosen_used_infos) = 2
    /\ chosen_used_infos[1] = chosen_infos[2]

(* C6 as stated: the Selection is a subset of the thinned list and is      *)
(* empty only if the thinned list has at most one element.                 *)
C6_SelectionNonEmpty_Original ==
    Reduced =>
        /\ ElementsOf(chosen_used_infos) \subseteq ElementsOf(chosen_infos)
        /\ Len(chosen_used_infos) = 0 => Len(chosen_infos) <= 1

(* C6 amended: the Selection is a subset of the thinned list and is empty  *)
(* only if the thinned list has at most one element, or no two consecutive *)
(* thinned elements are within max_temporal_days whole days, or            *)
(* k_neighbors < 1 with ensure_chain off.                                  *)
C6_SelectionNonEmpty ==
    Reduced =>
        /\ ElementsOf(chosen_used_infos) \subseteq ElementsOf(chosen_infos)
        /\ Len(chosen_used_infos) = 0 =>
              \/ Len(chosen_infos) <= 1
              \/ \A i \in 1..(Len(chosen_infos) - 1) :
                    (chosen_infos[i + 1].t - chosen_infos[i].t) \div UnitsPerDay
                        > cfg.max_temporal_days
              \/ cfg.k_neighbors < 1 /\ ~cfg.ensure_chain

C6_Witness ==
    /\ Reduced
    /\ Len(chosen_infos) = 2
    /\ Len(chosen_used_infos) = 0
    /\ cfg.k_neighbors >= 1 /\ cfg.ensure_chain

---------------------------------------------------------------------------
(* sbas_select_and_download: after the state file, the download driver *)

selvars == <<cfg, results_list, infos, groups, chosen_key,
             chosen_infos_before_group_filters, chosen_frame,
             chosen_infos_before, thinned, chosen_infos, times, pairs, used,
             chosen_used_infos>>

(* props.get("sceneName") or props.get("fileID") or ... : the name of the *)
(* catalog record; distinct records carry distinct names, none a prefix   *)
(* of another                                                             *)
sname(x) == x.idx

(* any(out_dir.glob(f"{sname}*")): some file of that name, whatever it holds *)
Exists(d, s) == \E f \in d : f.sname = s

(* the downloader writes <out_dir>/<name>.zip; complete tells whether all *)
(* of it arrived                                                          *)
PutFile(d, s, c) == {f \in d : f.sname # s} \cup {[sname |-> s, complete |-> c]}

Event(s, w) == [run |-> run, sname |-> s, what |-> w]

(* return {..., "downloaded": False, ...} of the search-only branch *)
DrySummary ==
    [kind |-> "return", searched |-> TRUE, downloaded |-> FALSE,
     total_candidates |-> Len(results_list),
     chosen_group_key |-> chosen_key,
     chosen_group_size_before |-> Len(chosen_infos_before),
     chosen_group_size_after |-> Len(chosen_infos),
     selected_count |-> Len(chosen_used_infos),
     pairs_count |-> Len(pairs),
     out_dir |-> "out_dir",
     pairs_file |-> "pairs_path"]

(* return {..., "downloaded": True, ...} at the end *)
DownloadSummary ==
    [kind |-> "return", searched |-> TRUE, downloaded |-> TRUE,
     total_candidates |-> Len(results_list),
     chosen_group_key |-> chosen_key,
     chosen_group_size_before |-> Len(chosen_infos_before),
     chosen_group_size_after |-> Len(chosen_infos),
     selected_count |-> Len(chosen_used_infos),
     pairs_count |-> Len(pairs),
     out_dir |-> "out_dir",
     pairs_file |-> "pairs_path"]

ReturnDryBeforeWrite ==
    /\ pc = "selected"
    /\ dlcfg.dry_search_only
    /\ result' = DrySummary
    /\ pc' = "done"
    /\ UNCHANGED <<selvars, state_file, dlcfg, out_dir, session, dl_i, log, run, other>>
    /\ UNCHANGED plvars

(* if bool(dlcfg.get("dry_search_only", False)): return {...} *)
ReturnDry ==
    /\ pc = "written"
    /\ dlcfg.dry_search_only
    /\ result' = DrySummary
    /\ pc' = "done"
    /\ UNCHANGED <<selvars, state_file, dlcfg, out_dir, session, dl_i, log, run, other>>
    /\ UNCHANGED plvars

BuildSessionBeforeWrite ==
    /\ pc = "selected"
    /\ ~dlcfg.dry_search_only
    /\ session' = TRUE
    /\ dl_i' = 0
    /\ pc' = "download"
    /\ UNCHANGED <<selvars, state_file, result, dlcfg, out_dir, log, run, other>>
    /\ UNCHANGED plvars

(* session = build_session(netrc_path=netrc_path) *)
BuildSession ==
    /\ pc = "written"
    /\ ~dlcfg.dry_search_only
    /\ session' = TRUE
    /\ dl_i' = 0
    /\ pc' = "download"
    /\ UNCHANGED <<selvars, state_file, result, dlcfg, out_dir, log, run, other>>
    /\ UNCHANGED plvars

(* netrc_creds finds no usable entry: FileNotFoundError / RuntimeError *)
BuildSessionFails ==
    /\ pc = "written"
    /\ ~dlcfg.dry_search_only
    /\ result' = [kind |-> "raise", error |-> "CredentialsError"]
    /\ pc' = "raised"
    /\ UNCHANGED <<selvars, state_file, dlcfg, out_dir, session, dl_i, log, run, other>>
    /\ UNCHANGED plvars

InItemLoop ==
    /\ pc = "download"
    /\ dlcfg.show_progress
    /\ dl_i < Len(chosen_used_infos)

(* if skip_existing and exists: print(...); continue *)
SkipItem ==
    /\ InItemLoop
    /\ dlcfg.skip_existing
    /\ Exists(out_dir, sname(chosen_used_infos[dl_i + 1]))
    /\ log' = Append(log, Event(sname(chosen_used_infos[dl_i + 1]), "skipped"))
    /\ dl_i' = dl_i + 1
    /\ UNCHANGED <<selvars, state_file, result, pc, dlcfg, out_dir, session, run, other>>
    /\ UNCHANGED plvars

(* obj.download(path=str(out_dir), session=session) returns *)
DownloadItem ==
    /\ InItemLoop
    /\ ~(dlcfg.skip_existing /\ Exists(out_dir, sname(chosen_used_infos[dl_i + 1])))
    /\ out_dir' = PutFile(out_dir, sname(chosen_used_infos[dl_i + 1]), TRUE)
    /\ log' = Append(log, Event(sname(chosen_used_infos[dl_i + 1]), "downloaded"))
    /\ dl_i' = dl_i + 1
    /\ UNCHANGED <<selvars, state_file, result, pc, dlcfg, session, run, other>>
    /\ UNCHANGED plvars

DownloadItemFailsContinue ==
    /\ InItemLoop
    /\ ~(dlcfg.skip_existing /\ Exists(out_dir, sname(chosen_used_infos[dl_i + 1])))
    /\ \E left \in BOOLEAN :
          out_dir' = IF left
                     THEN PutFile(out_dir, sname(chosen_used_infos[dl_i + 1]), FALSE)
                     ELSE out_dir
    /\ log' = Append(log, Event(sname(chosen_used_infos[dl_i + 1]), "failed"))
    /\ dl_i' = dl_i + 1
    /\ UNCHANGED <<selvars, state_file, result, pc, dlcfg, session, run, other>>
    /\ UNCHANGED plvars

(* obj.download(...) raises (network, authentication, disk): the error    *)
(* leaves the loop and the function; what had been written of the file    *)
(* may stay under out_dir                                                 *)
DownloadItemFails ==
    /\ InItemLoop
    /\ ~(dlcfg.skip_existing /\ Exists(out_dir, sname(chosen_used_infos[dl_i + 1])))
    /\ \E left \in BOOLEAN :
          out_dir' = IF left
                     THEN PutFile(out_dir, sname(chosen_used_infos[dl_i + 1]), FALSE)
                     ELSE out_dir
    /\ log' = Append(log, Event(sname(chosen_used_infos[dl_i + 1]), "failed"))
    /\ result' = [kind |-> "raise", error |-> "DownloadError"]
    /\ pc' = "raised"
    /\ UNCHANGED <<selvars, state_file, dlcfg, session, dl_i, run, other>>
    /\ UNCHANGED plvars

(* the loop is exhausted: print("Download complete..."); return {...} *)
FinishItems ==
    /\ pc = "download"
    /\ dlcfg.show_progress
    /\ dl_i = Len(chosen_used_infos)
    /\ result' = DownloadSummary
    /\ pc' = "done"
    /\ UNCHANGED <<selvars, state_file, dlcfg, out_dir, session, dl_i, log, run, other>>
    /\ UNCHANGED plvars

SelectedNames == {sname(chosen_used_infos[q]) : q \in 1..Len(chosen_used_infos)}

RECURSIVE PutFiles(_, _, _)
PutFiles(d, S, c) ==
    IF S = {} THEN d
    ELSE LET s == CHOOSE x \in S : TRUE
         IN  PutFiles(PutFile(d, s, c), S \ {s}, c)

(* what asf.ASFSearchResults(selected_objs).download(...) did: every     *)
(* scene of selected_objs is handed to the downloader                    *)
BulkEvents(ok) ==
    [q \in 1..Len(chosen_used_infos) |->
        Event(sname(chosen_used_infos[q]),
              IF sname(chosen_used_infos[q]) \in ok THEN "downloaded" ELSE "failed")]

(* selected_results.download(path, session, processes) returns *)
BulkDownload ==
    /\ pc = "download"
    /\ ~dlcfg.show_progress
    /\ out_dir' = PutFiles(out_dir, SelectedNames, TRUE)
    /\ log' = log \o BulkEvents(SelectedNames)
    /\ dl_i' = Len(chosen_used_infos)
    /\ result' = DownloadSummary
    /\ pc' = "done"
    /\ UNCHANGED <<selvars, state_file, dlcfg, session, run, other>>
    /\ UNCHANGED plvars

(* selected_results.download(...) raises: some scenes arrived, of the   *)
(* others a part of the file may stay under out_dir                     *)
BulkDownloadFails ==
    /\ pc = "download"
    /\ ~dlcfg.show_progress
    /\ \E ok \in SUBSET SelectedNames : \E left \in SUBSET (SelectedNames \ ok) :
          /\ ok # SelectedNames
          /\ out_dir' = PutFiles(PutFiles(out_dir, ok, TRUE), left, FALSE)
          /\ log' = log \o BulkEvents(ok)
    /\ dl_i' = Len(chosen_used_infos)
    /\ result' = [kind |-> "raise", error |-> "DownloadError"]
    /\ pc' = "raised"
    /\ UNCHANGED <<selvars, state_file, dlcfg, session, run, other>>
    /\ UNCHANGED plvars

---------------------------------------------------------------------------
(* Specification of a whole run of sbas_select_and_download *)

(* Catalogs of scenes one day apart, each with its resolved group key and *)
(* resolved frame; the output directory is empty or holds the file of    *)
(* the catalog's first scene, left there by an earlier run                *)
RunCatalogs(len) ==
    {[p \in 1..len |-> [t |-> (p - 1) * UnitsPerDay, key |-> ks[p], frame |-> fs[p]]] :
        ks \in [1..len -> {1, 2}], fs \in [1..len -> {NoFrame, 1, 2}]}

InitRun ==
    /\ pc = "start"
    /\ results_list \in UNION {RunCatalogs(len) : len \in 0..MaxRunCat}
    /\ cfg \in {[DefaultCfg EXCEPT !.enforce_same_frame = en] : en \in BOOLEAN}
    /\ dlcfg \in {DefaultDlcfg, [DefaultDlcfg EXCEPT !.dry_search_only = TRUE]}
                 \cup [dry_search_only : {FALSE}, show_progress : BOOLEAN,
                       skip_existing : BOOLEAN]
    /\ state_file \in {Absent, Previous}
    /\ infos = <<>> /\ groups = <<>>
    /\ chosen_key = None /\ chosen_infos_before_group_filters = <<>>
    /\ chosen_frame = NoFrame
    /\ chosen_infos_before = <<>> /\ thinned = <<>> /\ chosen_infos = <<>>
    /\ times = <<>> /\ pairs = <<>> /\ used = {} /\ chosen_used_infos = <<>>
    /\ result = NoResult
    /\ out_dir \in {{}, {[sname |-> 0, complete |-> TRUE]}}
    /\ session = FALSE /\ dl_i = 0 /\ log = <<>> /\ run = 1
    /\ other = NoResult
    /\ NoPipeline

NextRun ==
    \/ ReturnEmpty
    \/ RaiseNoFrame
    \/ Select
    \/ OpenStateFile
    \/ WriteStateFile
    \/ ReturnDry
    \/ BuildSession
    \/ BuildSessionFails
    \/ SkipItem
    \/ DownloadItem
    \/ DownloadItemFails
    \/ FinishItems
    \/ BulkDownload
    \/ BulkDownloadFails

SpecRun == InitRun /\ [][NextRun]_vars

---------------------------------------------------------------------------
(* Properties of a whole run, checked under SpecRun *)

FrameError == [kind |-> "raise", error |-> "ValueError"]

PastFrameSelection ==
    /\ Len(results_list) > 0
    /\ pc # "start"
    /\ result # FrameError

(* C11: with frame enforcement on, once the run is past frame selection   *)
(* every scene handed to thinning carries the same non-null frame, the     *)
(* recorded chosen_frame; the scenes of the chosen group with another      *)
(* frame or with none are left out, and no other scene is.                 *)
C11_FramePurity ==
    (cfg.enforce_same_frame /\ PastFrameSelection) =>
        /\ chosen_frame # NoFrame
        /\ \A p \in 1..Len(chosen_infos_before) :
              chosen_infos_before[p].frame = chosen_frame
        /\ ElementsOf(chosen_infos_before) =
              {x \in ElementsOf(chosen_infos_before_group_filters) :
                  x.frame = chosen_frame}
        /\ state_file.kind = "document" => state_file.chosen_frame = chosen_frame

C11_Witness ==
    /\ cfg.enforce_same_frame /\ pc = "written"
    /\ Len(chosen_infos_before_group_filters) = 3
    /\ \E x \in ElementsOf(chosen_infos_before_group_filters) : x.frame = NoFrame
    /\ \E x \in ElementsOf(chosen_infos_before_group_filters) :
          x.frame # NoFrame /\ x.frame # chosen_frame
    /\ Len(chosen_infos_before) = 1

(* C12: with frame enforcement on and no frame on any scene of the chosen  *)
(* group, the run ends in the frame error: the state file is not written,  *)
(* no session is built, the downloader is never invoked, and the run never *)
(* goes on with the unfiltered group.                                      *)
ChosenGroupOf(results) ==
    choose_group(group_by_track(extract_scene_info(results))).infos

NoFrameInChosenGroup ==
    /\ Len(results_list) > 0
    /\ \A x \in ElementsOf(ChosenGroupOf(results_list)) : x.frame = NoFrame

C12_NoFrameIsFatal ==
    (cfg.enforce_same_frame /\ NoFrameInChosenGroup) =>
        /\ pc \in {"start", "raised"}
        /\ pc = "raised" => result = FrameError
        /\ state_file \in {Absent, Previous}
        /\ ~session
        /\ log = <<>>
        /\ chosen_infos_before = <<>> /\ chosen_used_infos = <<>>

C12_Witness ==
    /\ cfg.enforce_same_frame /\ NoFrameInChosenGroup
    /\ pc = "raised" /\ result = FrameError
    /\ Len(chosen_infos_before_group_filters) >= 2
    /\ \E p \in 1..Len(results_list) : results_list[p].frame # NoFrame
    /\ state_file = Previous

(* C13: at every moment of a run the path holds either what it held       *)
(* before the run (a complete document, or nothing) or the complete new   *)
(* document, never an empty or truncated file.                            *)
C13_NeverPartiallyWritten ==
    \/ state_file \in {Absent, Previous}
    \/ state_file = meta

(* C14: with dry_search_only and a non-empty catalog no session is built   *)
(* and the downloader is never invoked; the run returns after the state    *)
(* file holds the document of this run, with downloaded = false and the    *)
(* keys of the summary of the download path.                               *)
C14_SearchOnly ==
    (dlcfg.dry_search_only /\ Len(results_list) > 0) =>
        /\ ~session
        /\ log = <<>>
        /\ pc # "download"
        /\ pc = "done" =>
              /\ state_file = meta
              /\ result.kind = "return"
              /\ result.downloaded = FALSE
              /\ DOMAIN result = DOMAIN DownloadSummary
              /\ \A f \in (DOMAIN result) \ {"downloaded"} :
                    result[f] = DownloadSummary[f]

C14_Witness ==
    /\ dlcfg.dry_search_only /\ pc = "done"
    /\ Len(chosen_used_infos) >= 2
    /\ state_file = meta
    /\ result.downloaded = FALSE

(* C15: on an empty catalog the run returns, without raising, a summary    *)
(* with total_candidates, chosen_group_size and selected_count 0 and       *)
(* downloaded = false; the state file is left as it was and neither a      *)
(* session is built nor the downloader invoked.                            *)
C15_EmptyCatalog ==
    /\ [](Len(results_list) = 0 =>
            /\ pc \in {"start", "done"}
            /\ pc = "done" =>
                  /\ result.kind = "return"
                  /\ result.downloaded = FALSE
                  /\ result.total_candidates = 0
                  /\ result.chosen_group_size = 0
                  /\ result.selected_count = 0
            /\ ~session
            /\ log = <<>>)
    /\ [][Len(results_list) = 0 => state_file' = state_file]_vars

C15_Witness ==
    /\ Len(results_list) = 0 /\ pc = "done"
    /\ result.selected_count = 0
    /\ state_file = Previous

---------------------------------------------------------------------------
(* Specification of the download driver over repeated runs *)

(* A run that reached the download driver with a selection of n scenes:   *)
(* a catalog of n scenes of one track and one frame, a day apart, under   *)
(* the default configuration (one scene alone gives the empty selection). *)
(* The output directory may already hold files of some of them.           *)
InitDownload ==
    /\ pc = "written"
    /\ results_list \in {[p \in 1..n |-> [t |-> (p - 1) * UnitsPerDay, key |-> 1,
                                           frame |-> 1]] : n \in 1..MaxSel}
    /\ cfg = DefaultCfg
    /\ infos = extract_scene_info(results_list)
    /\ groups = group_by_track(infos)
    /\ chosen_key = choose_group(groups).key
    /\ chosen_infos_before_group_filters = choose_group(groups).infos
    /\ chosen_frame = choose_dominant_frame(chosen_infos_before_group_filters).frame
    /\ chosen_infos_before = choose_dominant_frame(chosen_infos_before_group_filters).infos
    /\ thinned = chosen_infos_before
    /\ chosen_infos = thin_acquisitions(chosen_infos_before, cfg.min_repeat_days,
                                        cfg.max_acquisitions, cfg.keep_ends)
    /\ times = TimesOf(chosen_infos)
    /\ pairs = sbas_pairs_from_times(times, cfg.max_temporal_days,
                                     cfg.k_neighbors, cfg.ensure_chain)
    /\ used = UsedIndices(pairs)
    /\ chosen_used_infos = SelectUsed(chosen_infos, used)
    /\ state_file = meta
    /\ result = NoResult
    /\ dlcfg \in [dry_search_only : {FALSE}, show_progress : BOOLEAN,
                  skip_existing : BOOLEAN]
    /\ out_dir \in {PutFiles({}, S, TRUE) : S \in SUBSET (0..(Len(results_list) - 1))}
    /\ session = FALSE /\ dl_i = 0 /\ log = <<>> /\ run = 1
    /\ other = NoResult
    /\ NoPipeline

(* the command is run again on the same catalog and configuration: the    *)
(* selection and the document come out the same, the output directory is  *)
(* as the earlier runs left it                                            *)
Rerun ==
    /\ pc \in {"done", "raised"}
    /\ run < MaxRuns
    /\ run' = run + 1
    /\ session' = FALSE
    /\ dl_i' = 0
    /\ result' = NoResult
    /\ pc' = "written"
    /\ UNCHANGED <<selvars, state_file, dlcfg, out_dir, log, other>>
    /\ UNCHANGED plvars

NextDownload ==
    \/ BuildSession
    \/ BuildSessionFails
    \/ SkipItem
    \/ DownloadItem
    \/ DownloadItemFails
    \/ FinishItems
    \/ BulkDownload
    \/ BulkDownloadFails
    \/ Rerun

SpecDownload == InitDownload /\ [][NextDownload]_vars

---------------------------------------------------------------------------
(* Properties of the download driver, checked under SpecDownload *)

InThisRun(e) == e.run = run

(* what the driver did in the current run, in order *)
RunLog == SelectSeq(log, InThisRun)

Invoked(e) == e.what \in {"downloaded", "failed"}

Complete(s) == [sname |-> s, complete |-> TRUE] \in out_dir

(* C16: in the item loop, once the download of the k-th selected scene     *)
(* has failed the run has ended with that error, nothing was done for any  *)
(* later scene, and each of the k-1 scenes before it was downloaded or     *)
(* skipped as existing, in the order of the selection.                     *)
C16_AbortOnFirstFailure ==
    dlcfg.show_progress =>
        \A k \in 1..Len(RunLog) :
            RunLog[k].what = "failed" =>
                /\ pc = "raised"
                /\ result = [kind |-> "raise", error |-> "DownloadError"]
                /\ Len(RunLog) = k
                /\ k <= Len(chosen_used_infos)
                /\ \A j \in 1..k : RunLog[j].sname = sname(chosen_used_infos[j])
                /\ \A j \in 1..(k - 1) :
                      /\ RunLog[j].what \in {"downloaded", "skipped"}
                      /\ Exists(out_dir, RunLog[j].sname)
                      /\ RunLog[j].what = "downloaded" => Complete(RunLog[j].sname)
                      /\ RunLog[j].what = "skipped" => dlcfg.skip_existing

C16_Witness ==
    /\ dlcfg.show_progress /\ pc = "raised"
    /\ Len(chosen_used_infos) = 3
    /\ Len(RunLog) = 2
    /\ RunLog[1].what = "downloaded"
    /\ RunLog[2].what = "failed"

(* C17: under skip_existing, in the item loop, a rerun invokes the         *)
(* downloader for no scene that completed in an earlier run and passes     *)
(* over no scene that did not complete; when a rerun ends without a        *)
(* failure every selected scene is completely downloaded, and was          *)
(* completely downloaded at most once.                                     *)
DownloadedCount(s) ==
    Cardinality({q \in 1..Len(log) : log[q].sname = s /\ log[q].what = "downloaded"})

C17_RerunIdempotent ==
    (dlcfg.show_progress /\ dlcfg.skip_existing) =>
        /\ \A q \in 1..Len(log) :
              (log[q].run >= 2 /\ Invoked(log[q])) =>
                  ~\E r \in 1..(q - 1) :
                      /\ log[r].run < log[q].run
                      /\ log[r].sname = log[q].sname
                      /\ log[r].what = "downloaded"
        /\ \A q \in 1..Len(log) :
              (log[q].run >= 2 /\ log[q].what = "skipped") => Complete(log[q].sname)
        /\ (pc = "done" /\ run >= 2) =>
              \A s \in SelectedNames : Complete(s) /\ DownloadedCount(s) <= 1

(* C18: the bulk call hands the downloader exactly the scenes for which   *)
(* the item loop, on the same selection, output directory and              *)
(* skip_existing, would invoke it.                                         *)
ItemLoopInvokes == {s \in SelectedNames : ~(dlcfg.skip_existing /\ Exists(out_dir, s))}

C18_BulkSameSelection ==
    [][(pc = "download" /\ ~dlcfg.show_progress /\ pc' # "download") =>
          {log'[q].sname : q \in (Len(log) + 1)..Len(log')} = ItemLoopInvokes]_vars

---------------------------------------------------------------------------
(* Specification of choose_group and choose_dominant_frame on a catalog  *)
(* and on the same catalog listed in the opposite order                  *)

Reverse(s) == [p \in 1..Len(s) |-> s[Len(s) + 1 - p]]

(* extract_scene_info, group_by_track, choose_group, choose_dominant_frame *)
ChooseOn(results) ==
    LET g == group_by_track(extract_scene_info(results))
        c == choose_group(g)
        d == choose_dominant_frame(c.infos)
    IN  [results_list |-> results, groups |-> g, chosen_key |-> c.key,
         chosen_infos_before_group_filters |-> c.infos,
         chosen_frame |-> d.frame, chosen_infos_before |-> d.infos]

InitChoose ==
    /\ pc = "choose"
    /\ results_list \in UNION {
          {[p \in 1..len |-> [t |-> ts[p], key |-> ks[p], frame |-> fs[p]]] :
              ts \in [1..len -> 0..MaxChooseTime], ks \in [1..len -> {1, 2}],
              fs \in [1..len -> {NoFrame, 1, 2}]} : len \in 0..MaxChooseLen}
    /\ other = [results_list |-> Reverse(results_list)]
    /\ cfg = DefaultCfg
    /\ infos = <<>> /\ groups = <<>>
    /\ chosen_key = None /\ chosen_infos_before_group_filters = <<>>
    /\ chosen_frame = NoFrame
    /\ chosen_infos_before = <<>> /\ thinned = <<>> /\ chosen_infos = <<>>
    /\ times = <<>> /\ pairs = <<>> /\ used = {} /\ chosen_used_infos = <<>>
    /\ state_file = Absent /\ result = NoResult
    /\ dlcfg = DefaultDlcfg
    /\ out_dir = {} /\ session = FALSE /\ dl_i = 0 /\ log = <<>> /\ run = 1
    /\ NoPipeline

(* if not groups: raise ValueError("No groups found (empty results).") *)
ChooseNoGroups ==
    /\ pc = "choose"
    /\ Len(results_list) = 0
    /\ result' = [kind |-> "raise", error |-> "ValueError"]
    /\ pc' = "raised"
    /\ UNCHANGED <<selvars, state_file, dlcfg, out_dir, session, dl_i, log, run, other>>
    /\ UNCHANGED plvars

CallChoose ==
    /\ pc = "choose"
    /\ Len(results_list) > 0
    /\ infos' = extract_scene_info(results_list)
    /\ groups' = group_by_track(infos')
    /\ chosen_key' = choose_group(groups').key
    /\ chosen_infos_before_group_filters' = choose_group(groups').infos
    /\ chosen_frame' = choose_dominant_frame(chosen_infos_before_group_filters').frame
    /\ chosen_infos_before' =
          choose_dominant_frame(chosen_infos_before_group_filters').infos
    /\ other' = ChooseOn(other.results_list)
    /\ pc' = "chosen"
    /\ UNCHANGED <<cfg, results_list, thinned, chosen_infos, times, pairs, used,
                   chosen_used_infos, state_file, result, dlcfg, out_dir,
                   session, dl_i, log, run>>
    /\ UNCHANGED plvars

NextChoose ==
    \/ ChooseNoGroups
    \/ CallChoose

SpecChoose == InitChoose /\ [][NextChoose]_vars

---------------------------------------------------------------------------
(* Properties of choose_group and choose_dominant_frame, under SpecChoose *)

GroupSizes(g) == {<<g[q].key, Len(g[q].infos)>> : q \in 1..Len(g)}

(* C19: choose_group returns a group of maximal size, and the chosen key  *)
(* is a function of the groups' keys and sizes alone: the same catalog    *)
(* listed in another order, which has the same groups, gives the same     *)
(* key.                                                                   *)
C19_LargestGroupByKeyOrder ==
    pc = "chosen" =>
        /\ \E q \in 1..Len(groups) :
              /\ groups[q].key = chosen_key
              /\ groups[q].infos = chosen_infos_before_group_filters
              /\ \A r \in 1..Len(groups) :
                    Len(groups[r].infos) <= Len(groups[q].infos)
        /\ GroupSizes(other.groups) = GroupSizes(groups)
              => other.chosen_key = chosen_key

FramesOf(s) == {s[p].frame : p \in 1..Len(s)} \ {NoFrame}

FrameCounts(s) == {<<f, FrameCount(s, f)>> : f \in FramesOf(s)}

(* C20: choose_dominant_frame returns a non-null frame of the highest      *)
(* count and exactly the input scenes of that frame, sorted by time; among *)
(* equally frequent frames the choice follows the frame values, so two     *)
(* inputs with the same count for every frame give the same frame.         *)
C20_DominantFrameByValueOrder ==
    (pc = "chosen" /\ FramesOf(chosen_infos_before_group_filters) # {}) =>
        /\ chosen_frame \in FramesOf(chosen_infos_before_group_filters)
        /\ \A f \in FramesOf(chosen_infos_before_group_filters) :
              FrameCount(chosen_infos_before_group_filters, f)
                 <= FrameCount(chosen_infos_before_group_filters, chosen_frame)
        /\ ElementsOf(chosen_infos_before) =
              {x \in ElementsOf(chosen_infos_before_group_filters) :
                  x.frame = chosen_frame}
        /\ Len(chosen_infos_before) =
              FrameCount(chosen_infos_before_group_filters, chosen_frame)
        /\ \A p \in 1..(Len(chosen_infos_before) - 1) :
              chosen_infos_before[p].t <= chosen_infos_before[p + 1].t
        /\ FrameCounts(other.chosen_infos_before_group_filters)
              = FrameCounts(chosen_infos_before_group_filters)
              => other.chosen_frame = chosen_frame

---------------------------------------------------------------------------
(* Specification of two runs of the selection on one catalog.  The only   *)
(* unordered collections the selection iterates are the sets handed to    *)
(* sorted() in thin_acquisitions (set(idxs)) and sbas_pairs_from_times    *)
(* (pairs); the order in which a set yields its elements is not fixed by   *)
(* the language, so the second run draws it freely.                        *)

(* the orders in which a set may yield its elements *)
RECURSIVE Orderings(_)
Orderings(S) ==
    IF S = {} THEN {<<>>}
    ELSE UNION {{<<x>> \o o : o \in Orderings(S \ {x})} : x \in S}

(* sorted(it) on ints yielded in the order it *)
RECURSIVE PySortedInts(_)
PySortedInts(it) ==
    IF it = <<>> THEN <<>>
    ELSE LET s == PySortedInts(SubSeq(it, 1, Len(it) - 1))
             x == Last(it)
             p == Cardinality({q \in 1..Len(s) : s[q] <= x})
         IN  SubSeq(s, 1, p) \o <<x>> \o SubSeq(s, p + 1, Len(s))

PySortedPairsAsYielded(it) == it

(* sorted(it) on int tuples yielded in the order it *)
RECURSIVE PySortedPairs(_)
PySortedPairs(it) ==
    IF it = <<>> THEN <<>>
    ELSE LET s == PySortedPairs(SubSeq(it, 1, Len(it) - 1))
             x == Last(it)
             p == Cardinality({q \in 1..Len(s) : ~LexLess(x, s[q])})
         IN  SubSeq(s, 1, p) \o <<x>> \o SubSeq(s, p + 1, Len(s))

(* set(idxs) of the cap stage; empty when the stage does not sample *)
CapIdxSet(out, max_acq) ==
    IF max_acq # None /\ max_acq > 2 /\ Len(out) > max_acq
    THEN {PyRound(i * (Len(out) - 1), max_acq - 1) : i \in 0..(max_acq - 1)}
    ELSE {}

(* stage (B) with set(idxs) yielding its elements in the order it *)
ThinCapYielding(out, max_acq, keep_ends, it) ==
    IF max_acq # None /\ max_acq > 0 /\ Len(out) > max_acq
    THEN IF max_acq = 1 THEN <<out[1]>>
         ELSE IF max_acq = 2
              THEN (IF keep_ends THEN <<out[1], Last(out)>> ELSE <<out[1], out[2]>>)
         ELSE LET idxs == PySortedInts(it)
              IN  SortByT([p \in 1..Len(idxs) |-> out[idxs[p] + 1]])
    ELSE out

(* the set pairs of sbas_pairs_from_times before sorted() *)
PairsBeforeSort(ts, mt, k, ec) ==
    IF Len(ts) <= 1 THEN {}
    ELSE NeighborPairs(ts, mt, k) \cup (IF ec THEN ChainPairs(ts, mt) ELSE {})

InitRepeat ==
    /\ pc = "start"
    /\ results_list \in UNION {
          {[p \in 1..len |-> [t |-> (p - 1) * UnitsPerDay, key |-> ks[p],
                              frame |-> fs[p]]] :
              ks \in [1..len -> {1, 2}], fs \in [1..len -> {1, 2}]} :
          len \in 1..MaxRepeatLen}
    /\ cfg \in {[DefaultCfg EXCEPT !.max_temporal_days = 1, !.k_neighbors = 2],
                 [DefaultCfg EXCEPT !.max_acquisitions = 3,
                                    !.max_temporal_days = 2],
                 [DefaultCfg EXCEPT !.enforce_same_frame = FALSE,
                                    !.max_acquisitions = 3, !.k_neighbors = 1]}
    /\ other = [stage |-> "start"]
    /\ infos = <<>> /\ groups = <<>>
    /\ chosen_key = None /\ chosen_infos_before_group_filters = <<>>
    /\ chosen_frame = NoFrame
    /\ chosen_infos_before = <<>> /\ thinned = <<>> /\ chosen_infos = <<>>
    /\ times = <<>> /\ pairs = <<>> /\ used = {} /\ chosen_used_infos = <<>>
    /\ state_file = Absent /\ result = NoResult
    /\ dlcfg = DefaultDlcfg
    /\ out_dir = {} /\ session = FALSE /\ dl_i = 0 /\ log = <<>> /\ run = 1
    /\ NoPipeline

(* second run, lines 477-518: extract, group, choose, frame, thin *)
RepeatThin ==
    /\ pc = "selected"
    /\ other.stage = "start"
    /\ LET c == choose_group(group_by_track(extract_scene_info(results_list)))
           d == IF cfg.enforce_same_frame THEN choose_dominant_frame(c.infos)
                ELSE [frame |-> NoFrame, infos |-> c.infos]
           spaced == IF Len(d.infos) <= 2 THEN d.infos
                     ELSE ThinSpacing(d.infos, cfg.min_repeat_days, cfg.keep_ends)
       IN  \E it \in Orderings(CapIdxSet(spaced, cfg.max_acquisitions)) :
               other' = [stage |-> "thinned",
                         chosen_key |-> c.key,
                         chosen_frame |-> d.frame,
                         chosen_infos |->
                             IF Len(d.infos) <= 2 THEN d.infos
                             ELSE ThinCapYielding(spaced, cfg.max_acquisitions,
                                                  cfg.keep_ends, it)]
    /\ UNCHANGED <<pc, selvars, state_file, result, dlcfg, out_dir, session,
                   dl_i, log, run>>
    /\ UNCHANGED plvars

(* second run, lines 521-527: times, sbas_pairs_from_times *)
RepeatPairs ==
    /\ pc = "selected"
    /\ other.stage = "thinned"
    /\ \E it \in Orderings(PairsBeforeSort(TimesOf(other.chosen_infos),
                                            cfg.max_temporal_days,
                                            cfg.k_neighbors, cfg.ensure_chain)) :
           other' = [other EXCEPT !.stage = "paired"] @@ [pairs |-> PySortedPairs(it)]
    /\ UNCHANGED <<pc, selvars, state_file, result, dlcfg, out_dir, session,
                   dl_i, log, run>>
    /\ UNCHANGED plvars

NextRepeat ==
    \/ Select
    \/ RepeatThin
    \/ RepeatPairs

SpecRepeat == InitRepeat /\ [][NextRepeat]_vars

---------------------------------------------------------------------------
(* Property of repeated runs, checked under SpecRepeat *)

(* C21: two runs of extraction, grouping, group choice, frame choice,     *)
(* thinning and pairing on the same ordered catalog and configuration     *)
(* produce the same chosen key, chosen frame, thinned list and pair list,  *)
(* whatever order the sets they iterate yield their elements in.          *)
C21_Determinism ==
    (pc = "selected" /\ other.stage = "paired") =>
        /\ other.chosen_key = chosen_key
        /\ other.chosen_frame = chosen_frame
        /\ other.chosen_infos = chosen_infos
        /\ other.pairs = pairs

C21_Witness ==
    /\ pc = "selected" /\ other.stage = "paired"
    /\ Len(chosen_infos) = 3 /\ Len(chosen_infos_before) = 4
    /\ Len(pairs) >= 2

---------------------------------------------------------------------------
(* Specification of the two scene identifiers on bounded property bags    *)

PropKeys == {"sceneName", "fileID", "granuleName", "productName"}

(* p.get(k): the value of a property, "" when it is absent, None or empty; *)
(* every such value is falsy and is passed over by `or`                    *)
PropBags == [PropKeys -> {"", "x", "y"}]

(* str(r), the fallback of both identifiers *)
StrOfObj == "str(obj)"

(* scene_id(r): sceneName or fileID or granuleName or productName or str(r) *)
scene_id(p) ==
    IF p["sceneName"] # "" THEN p["sceneName"]
    ELSE IF p["fileID"] # "" THEN p["fileID"]
    ELSE IF p["granuleName"] # "" THEN p["granuleName"]
    ELSE IF p["productName"] # "" THEN p["productName"]
    ELSE StrOfObj

(* sname of the per-item loop: sceneName or fileID or productName or str(obj) *)
sname_of_props(p) ==
    IF p["sceneName"] # "" THEN p["sceneName"]
    ELSE IF p["fileID"] # "" THEN p["fileID"]
    ELSE IF p["productName"] # "" THEN p["productName"]
    ELSE StrOfObj

InitIds ==
    /\ pc = "ids"
    /\ ident \in {[kind |-> "scene", props |-> b] : b \in PropBags}
    /\ pipe = [phase |-> "idle"]
    /\ state_dir = <<>>
    /\ cfg = DefaultCfg
    /\ results_list = <<>> /\ infos = <<>> /\ groups = <<>>
    /\ chosen_key = None /\ chosen_infos_before_group_filters = <<>>
    /\ chosen_frame = NoFrame
    /\ chosen_infos_before = <<>> /\ thinned = <<>> /\ chosen_infos = <<>>
    /\ times = <<>> /\ pairs = <<>> /\ used = {} /\ chosen_used_infos = <<>>
    /\ state_file = Absent /\ result = NoResult
    /\ NoDownload

(* the scene is selected: its identifier goes into selected_ids (line 575) *)
(* and the per-item loop derives its sname (line 614)                      *)
CallIds ==
    /\ pc = "ids"
    /\ ident' = [kind |-> "identified", props |-> ident.props,
                 selected_id |-> scene_id(ident.props),
                 sname |-> sname_of_props(ident.props)]
    /\ pc' = "identified"
    /\ UNCHANGED <<selvars, state_file, result, pipe, state_dir>>
    /\ UNCHANGED dlvars

NextIds == CallIds

SpecIds == InitIds /\ [][NextIds]_vars

---------------------------------------------------------------------------
(* Property of the identifiers, checked under SpecIds *)

(* C27: for every selected scene the identifier the per-item driver uses  *)
(* for its skip-existing check and progress report equals the identifier   *)
(* recorded for the scene in selected_ids, whatever subset of sceneName,   *)
(* fileID, granuleName and productName the scene carries.                  *)
C27_SameIdentifier ==
    pc = "identified" => ident.sname = ident.selected_id

---------------------------------------------------------------------------
(* Specification of the selection on catalogs whose scenes have footprints *)

(* footprints: none, a point, and rings of two corner points *)
Geometries ==
    {NoGeometry, <<<<0, 0>>>>, <<<<0, 0>>, <<1, 1>>>>, <<<<2, 1>>, <<1, 2>>>>,
     <<<<0 - 1, 3>>, <<0, 2>>>>}

(* one track and frame; acquisitions one or two days apart *)
BboxCatalogs(len) ==
    {[p \in 1..len |-> [t |-> ds[p] * UnitsPerDay, key |-> 1, frame |-> 1,
                        geometry |-> gs[p]]] :
        ds \in {d \in [1..len -> 0..(2 * (len - 1))] :
                   /\ d[1] = 0
                   /\ \A q \in 1..(len - 1) : d[q + 1] - d[q] \in {1, 2}},
        gs \in [1..len -> Geometries]}

InitBbox ==
    /\ pc = "start"
    /\ results_list \in UNION {BboxCatalogs(len) : len \in 1..MaxBboxCat}
    /\ cfg \in {DefaultCfg,
                 [DefaultCfg EXCEPT !.max_temporal_days = 1, !.k_neighbors = 1],
                 [DefaultCfg EXCEPT !.max_acquisitions = 2]}
    /\ infos = <<>> /\ groups = <<>>
    /\ chosen_key = None /\ chosen_infos_before_group_filters = <<>>
    /\ chosen_frame = NoFrame
    /\ chosen_infos_before = <<>> /\ thinned = <<>> /\ chosen_infos = <<>>
    /\ times = <<>> /\ pairs = <<>> /\ used = {} /\ chosen_used_infos = <<>>
    /\ state_file = Absent /\ result = NoResult
    /\ NoDownload
    /\ NoPipeline

NextBbox ==
    \/ Select
    \/ OpenStateFile
    \/ WriteStateFile

SpecBbox == InitBbox /\ [][NextBbox]_vars

---------------------------------------------------------------------------
(* Property of the persisted bounding boxes, checked under SpecBbox *)

(* C29: whenever the document's selected_bbox is non-null, its            *)
(* chosen_group_bbox is non-null and contains it: west and south are not   *)
(* greater, east and north are not smaller.                                *)
C29_BboxNested ==
    (state_file.kind = "document" /\ state_file.selected_bbox # NoBbox) =>
        /\ state_file.chosen_group_bbox # NoBbox
        /\ state_file.chosen_group_bbox[1] <= state_file.selected_bbox[1]
        /\ state_file.chosen_group_bbox[2] <= state_file.selected_bbox[2]
        /\ state_file.chosen_group_bbox[3] >= state_file.selected_bbox[3]
        /\ state_file.chosen_group_bbox[4] >= state_file.selected_bbox[4]

C29_Witness ==
    /\ state_file.kind = "document"
    /\ state_file.selected_bbox # NoBbox
    /\ state_file.chosen_group_bbox[1] < state_file.selected_bbox[1]
    /\ state_file.chosen_group_bbox[4] > state_file.selected_bbox[4]
    /\ \E q \in 1..Len(chosen_used_infos) :
          scene_geometry(results_list[chosen_used_infos[q].idx + 1]) = NoGeometry

---------------------------------------------------------------------------
(* Property of the order of record and download, checked under SpecRun *)

(* the scenes handed to the downloader in this run, in order *)
Dispatched ==
    LET d == SelectSeq(RunLog, Invoked)
    IN  [q \in 1..Len(d) |-> d[q].sname]

DownloadError == [kind |-> "raise", error |-> "DownloadError"]

RanToEndOfDownload == pc = "done" /\ result.kind = "return" /\ result.downloaded

(* the record is complete before the driver does anything, describes the *)
(* full selection, and stays as it is once written                        *)
RecordPrecedesDownload ==
    /\ [](/\ (pc = "download" \/ RunLog # <<>>) => state_file = meta
          /\ (pc = "raised" /\ result = DownloadError) =>
                /\ state_file = meta
                /\ state_file.selected_ids =
                      [q \in 1..Len(chosen_used_infos) |-> chosen_used_infos[q].idx])
    /\ [][state_file.kind = "document" => state_file' = state_file]_vars

---------------------------------------------------------------------------
(* Specification of run_pipeline over repeated invocations, force off     *)

Steps == 1..NumSteps

(* a path below the project directory, as its components; "." names the  *)
(* directory itself                                                        *)
Resolve(path) == SelectSeq(path, LAMBDA c : c # ".")

(* pairs_path = project_dir / ".state" / "sbas_pairs.json" *)
Step02Path == Resolve(<<".state", "sbas_pairs.json">>)

(* s1_out_dir = project_dir / cfg.get("s1_sbas_download", {}).get("out_dir", *)
(* "imgs"); sbas_pairs_path = s1_out_dir / ".state" / "sbas_pairs.json"      *)
Step03Path(c) ==
    Resolve((IF c.s1_sbas_download.has_out_dir THEN c.s1_sbas_download.out_dir
             ELSE <<"imgs">>)
            \o <<".state", "sbas_pairs.json">>)

(* the file at a path: only step 02 writes a sbas_pairs.json, at its path *)
FileAt(path) == IF path = Step02Path THEN state_file ELSE Absent

(* the documents step 02 writes, as far as step 03 reads them *)
Step02Documents ==
    {[kind |-> "document", selected_count |-> 2, selected_bbox |-> <<0, 0, 1, 1>>],
     [kind |-> "document", selected_count |-> 2, selected_bbox |-> NoBbox],
     [kind |-> "document", selected_count |-> 0, selected_bbox |-> NoBbox]}

(* select_steps: --only-steps in the order given, else the slice from    *)
(* --from-step to --until-step                                            *)
Selections ==
    {[p \in 1..(ab[2] - ab[1] + 1) |-> ab[1] + p - 1] :
        ab \in {x \in Steps \X Steps : x[1] <= x[2]}}
        \cup {<<a>> : a \in Steps} \cup {<<a, a>> : a \in Steps}

(* p.exists() and read_json(p).get("done", False) is True *)
is_step_done(sid) == state_dir[sid].json = "done"

InitPipeline ==
    /\ pc = "pipeline"
    /\ pipe = [phase |-> "idle", selected |-> <<>>, i |-> 0, step |-> 0,
               returned |-> {}, raised |-> {}, error |-> "", bbox |-> NoBbox]
    /\ state_dir = [sid \in Steps |-> [json |-> "absent", tmp |-> FALSE]]
    /\ ident = [kind |-> "none"]
    /\ cfg \in {[s1_sbas_download |-> [has_out_dir |-> FALSE, out_dir |-> <<>>]],
                 [s1_sbas_download |-> [has_out_dir |-> TRUE, out_dir |-> <<".">>]]}
    /\ state_file = Absent
    /\ results_list = <<>> /\ infos = <<>> /\ groups = <<>>
    /\ chosen_key = None /\ chosen_infos_before_group_filters = <<>>
    /\ chosen_frame = NoFrame
    /\ chosen_infos_before = <<>> /\ thinned = <<>> /\ chosen_infos = <<>>
    /\ times = <<>> /\ pairs = <<>> /\ used = {} /\ chosen_used_infos = <<>>
    /\ result = NoResult
    /\ NoDownload

pipefixed == <<pc, ident, results_list, infos, groups, chosen_key,
               chosen_infos_before_group_filters, chosen_frame,
               chosen_infos_before, thinned, chosen_infos, times, pairs, used,
               chosen_used_infos, result, cfg>>

(* run_pipeline is called: selected = select_steps(all_steps, ctx) *)
Invoke ==
    /\ pipe.phase \in {"idle", "finished", "raised"}
    /\ \E sel \in Selections :
          pipe' = [pipe EXCEPT !.phase = "loop", !.selected = sel, !.i = 0,
                               !.step = 0, !.raised = {}, !.error = "",
                               !.bbox = NoBbox]
    /\ UNCHANGED <<state_dir, state_file>>
    /\ UNCHANGED pipefixed
    /\ UNCHANGED dlvars

InLoop == pipe.phase = "loop" /\ pipe.i < Len(pipe.selected)

(* if done and not ctx.force: ... SKIP (already done); continue *)
SkipStep ==
    /\ InLoop
    /\ is_step_done(pipe.selected[pipe.i + 1])
    /\ pipe' = [pipe EXCEPT !.i = pipe.i + 1]
    /\ UNCHANGED <<state_dir, state_file>>
    /\ UNCHANGED pipefixed
    /\ UNCHANGED dlvars

(* ... START; ensure_dir(ctx.state_dir); step.fn(cfg, ctx, logger) is called *)
StartStep ==
    /\ InLoop
    /\ ~is_step_done(pipe.selected[pipe.i + 1])
    /\ pipe' = [pipe EXCEPT !.phase = "running", !.step = pipe.selected[pipe.i + 1]]
    /\ UNCHANGED <<state_dir, state_file>>
    /\ UNCHANGED pipefixed
    /\ UNCHANGED dlvars

Running(sids) == pipe.phase = "running" /\ pipe.step \in sids

(* step.fn returns its payload *)
StepReturns ==
    /\ Running(Steps \ {2, 3})
    /\ pipe' = [pipe EXCEPT !.phase = "marking",
                            !.returned = pipe.returned \cup {pipe.step}]
    /\ UNCHANGED <<state_dir, state_file>>
    /\ UNCHANGED pipefixed
    /\ UNCHANGED dlvars

StepRaisesMarksDone ==
    /\ Running(Steps \ {2, 3})
    /\ pipe' = [pipe EXCEPT !.phase = "marking",
                            !.raised = pipe.raised \cup {pipe.step},
                            !.error = "Exception"]
    /\ UNCHANGED <<state_dir, state_file>>
    /\ UNCHANGED pipefixed
    /\ UNCHANGED dlvars

(* step.fn raises: the exception leaves the loop and run_pipeline *)
StepRaises ==
    /\ Running(Steps \ {2, 3})
    /\ pipe' = [pipe EXCEPT !.phase = "raised",
                            !.raised = pipe.raised \cup {pipe.step},
                            !.error = "Exception"]
    /\ UNCHANGED <<state_dir, state_file>>
    /\ UNCHANGED pipefixed
    /\ UNCHANGED dlvars

(* step_02_download_s1 returns: sbas_select_and_download wrote its record, *)
(* or returned early on an empty catalog without writing                   *)
Step02Returns ==
    /\ Running({2})
    /\ state_file' \in Step02Documents \cup {state_file}
    /\ pipe' = [pipe EXCEPT !.phase = "marking",
                            !.returned = pipe.returned \cup {pipe.step}]
    /\ UNCHANGED state_dir
    /\ UNCHANGED pipefixed
    /\ UNCHANGED dlvars

(* step_02_download_s1 re-raises what sbas_select_and_download raised,    *)
(* before the record was written (search, frame) or after it (download)    *)
Step02Raises ==
    /\ Running({2})
    /\ state_file' \in {d \in Step02Documents : d.selected_count > 0} \cup {state_file}
    /\ pipe' = [pipe EXCEPT !.phase = "raised",
                            !.raised = pipe.raised \cup {pipe.step},
                            !.error = "Exception"]
    /\ UNCHANGED state_dir
    /\ UNCHANGED pipefixed
    /\ UNCHANGED dlvars

(* step_03_download_dem reads selected_bbox, runs dem.py and returns *)
Step03Returns ==
    /\ Running({3})
    /\ FileAt(Step03Path(cfg)).kind = "document"
    /\ FileAt(Step03Path(cfg)).selected_bbox # NoBbox
    /\ pipe' = [pipe EXCEPT !.phase = "marking",
                            !.returned = pipe.returned \cup {pipe.step},
                            !.bbox = FileAt(Step03Path(cfg)).selected_bbox]
    /\ UNCHANGED <<state_dir, state_file>>
    /\ UNCHANGED pipefixed
    /\ UNCHANGED dlvars

(* step_03_download_dem raises: FileNotFoundError when there is no file   *)
(* at its path, ValueError when the file has no selected_bbox, else the    *)
(* error of a failed dem.py                                                *)
Step03Raises ==
    /\ Running({3})
    /\ pipe' = [pipe EXCEPT
                   !.phase = "raised",
                   !.raised = pipe.raised \cup {pipe.step},
                   !.error = IF FileAt(Step03Path(cfg)).kind # "document"
                             THEN "FileNotFoundError"
                             ELSE IF FileAt(Step03Path(cfg)).selected_bbox = NoBbox
                             THEN "ValueError"
                             ELSE "RuntimeError",
                   !.bbox = IF FileAt(Step03Path(cfg)).kind = "document"
                            THEN FileAt(Step03Path(cfg)).selected_bbox
                            ELSE NoBbox]
    /\ UNCHANGED <<state_dir, state_file>>
    /\ UNCHANGED pipefixed
    /\ UNCHANGED dlvars

(* mark_step_done -> dump_json: the document is written to <id>.json.tmp *)
WriteTmp ==
    /\ pipe.phase = "marking"
    /\ state_dir' = [state_dir EXCEPT ![pipe.step].tmp = TRUE]
    /\ pipe' = [pipe EXCEPT !.phase = "replacing"]
    /\ UNCHANGED state_file
    /\ UNCHANGED pipefixed
    /\ UNCHANGED dlvars

(* writing the .tmp file fails (disk, permissions): the error leaves       *)
(* run_pipeline, a part of the .tmp file may stay                          *)
WriteTmpFails ==
    /\ pipe.phase = "marking"
    /\ \E left \in BOOLEAN :
          state_dir' = [state_dir EXCEPT ![pipe.step].tmp = @ \/ left]
    /\ pipe' = [pipe EXCEPT !.phase = "raised", !.error = "OSError"]
    /\ UNCHANGED state_file
    /\ UNCHANGED pipefixed
    /\ UNCHANGED dlvars

(* tmp.replace(path): <id>.json is now the complete document; ... DONE *)
ReplaceTmp ==
    /\ pipe.phase = "replacing"
    /\ state_dir' = [state_dir EXCEPT ![pipe.step] = [json |-> "done", tmp |-> FALSE]]
    /\ pipe' = [pipe EXCEPT !.phase = "loop", !.i = pipe.i + 1]
    /\ UNCHANGED state_file
    /\ UNCHANGED pipefixed
    /\ UNCHANGED dlvars

(* the loop is exhausted: Pipeline finished *)
FinishPipeline ==
    /\ pipe.phase = "loop"
    /\ pipe.i = Len(pipe.selected)
    /\ pipe' = [pipe EXCEPT !.phase = "finished"]
    /\ UNCHANGED <<state_dir, state_file>>
    /\ UNCHANGED pipefixed
    /\ UNCHANGED dlvars

NextPipeline ==
    \/ Invoke
    \/ SkipStep
    \/ StartStep
    \/ StepReturns
    \/ StepRaises
    \/ Step02Returns
    \/ Step02Raises
    \/ Step03Returns
    \/ Step03Raises
    \/ WriteTmp
    \/ WriteTmpFails
    \/ ReplaceTmp
    \/ FinishPipeline

SpecPipeline == InitPipeline /\ [][NextPipeline]_vars

---------------------------------------------------------------------------
(* Properties of the pipeline, checked under SpecPipeline *)

(* the function of step 03 has ended in this invocation *)
Step03Ended ==
    \/ pipe.step = 3 /\ pipe.phase \in {"marking", "replacing"}
    \/ pipe.phase = "raised" /\ 3 \in pipe.raised

(* C22: producer and consumer agree on the path of the state file: after *)
(* step 02 has completed with a non-empty selection, step 03 run for the   *)
(* same project and configuration reads the file step 02 wrote and         *)
(* obtains its selected_bbox.                                              *)
C22_Step03ReadsStep02Record ==
    (/\ is_step_done(2)
     /\ state_file.kind = "document"
     /\ state_file.selected_count > 0
     /\ Step03Ended) =>
        /\ pipe.error # "FileNotFoundError"
        /\ pipe.bbox = state_file.selected_bbox

FnStarts == pipe.phase # "running" /\ pipe'.phase = "running"

(* C28: with force off, over any sequence of invocations, a step is       *)
(* marked done only after its function returned without raising; a step   *)
(* whose function raised is left not-done and no later step starts in      *)
(* that invocation; a step marked done stays done, is skipped, and its     *)
(* function is never started again.                                        *)
C28_DoneOnlyAfterReturn ==
    /\ [](/\ \A sid \in Steps : is_step_done(sid) => sid \in pipe.returned
          /\ \A sid \in pipe.raised : ~is_step_done(sid)
          /\ pipe.raised # {} => pipe.phase = "raised")
    /\ [][/\ FnStarts => /\ ~is_step_done(pipe'.step)
                          /\ pipe.raised = {}
                          /\ pipe.phase = "loop"
          /\ \A sid \in Steps : is_step_done(sid) => state_dir'[sid].json = "done"
          /\ (InLoop /\ is_step_done(pipe.selected[pipe.i + 1])) =>
                /\ pipe' = [pipe EXCEPT !.i = pipe.i + 1]
                /\ state_dir' = state_dir]_vars

C28_Witness ==
    /\ pipe.phase = "raised" /\ pipe.raised = {3}
    /\ pipe.selected = <<1, 2, 3, 4>>
    /\ is_step_done(1) /\ is_step_done(2)
    /\ 3 \in pipe.returned
    /\ ~is_step_done(4)

---------------------------------------------------------------------------
(* Specification of extract_scene_info followed by group_by_track on      *)
(* catalogs listed in any order                                            *)

InitExtract ==
    /\ pc = "extract"
    /\ results_list \in UNION {
          {[p \in 1..len |-> [t |-> ts[p], key |-> ks[p], frame |-> NoFrame]] :
              ts \in [1..len -> 0..MaxExtractTime], ks \in [1..len -> {1, 2}]} :
          len \in 0..MaxExtractLen}
    /\ cfg = DefaultCfg
    /\ infos = <<>> /\ groups = <<>>
    /\ chosen_key = None /\ chosen_infos_before_group_filters = <<>>
    /\ chosen_frame = NoFrame
    /\ chosen_infos_before = <<>> /\ thinned = <<>> /\ chosen_infos = <<>>
    /\ times = <<>> /\ pairs = <<>> /\ used = {} /\ chosen_used_infos = <<>>
    /\ state_file = Absent /\ result = NoResult
    /\ NoDownload
    /\ NoPipeline

(* infos = extract_scene_info(results_list); groups = group_by_track(infos) *)
CallExtract ==
    /\ pc = "extract"
    /\ infos' = extract_scene_info(results_list)
    /\ groups' = group_by_track(infos')
    /\ pc' = "extracted"
    /\ UNCHANGED dlvars
    /\ UNCHANGED <<cfg, results_list, chosen_key,
                   chosen_infos_before_group_filters, chosen_frame,
                   chosen_infos_before, thinned, chosen_infos, times, pairs,
                   used, chosen_used_infos, state_file, result>>
    /\ UNCHANGED plvars

NextExtract == CallExtract

SpecExtract == InitExtract /\ [][NextExtract]_vars

---------------------------------------------------------------------------
(* Property of the groups' order, checked under SpecExtract *)

(* C24: every group produced by extract_scene_info followed by            *)
(* group_by_track is sorted ascending by timestamp, and scenes of equal    *)
(* timestamp appear in increasing order of their input index.              *)
C24_GroupsSortedStable ==
    pc = "extracted" =>
        \A q \in 1..Len(groups) :
            \A p \in 1..(Len(groups[q].infos) - 1) :
                LET a == groups[q].infos[p]
                    b == groups[q].infos[p + 1]
                IN  \/ a.t < b.t
                    \/ a.t = b.t /\ a.idx < b.idx

C24_Witness ==
    /\ pc = "extracted"
    /\ \E p \in 1..(Len(results_list) - 1) : results_list[p].t > results_list[p + 1].t
    /\ \E q \in 1..Len(groups) :
          /\ Len(groups[q].infos) = 2
          /\ groups[q].infos[1].t = groups[q].infos[2].t
          /\ groups[q].infos[2].idx = groups[q].infos[1].idx + 2

=============================================================================
